---- MODULE Spec2Model ----
(***************************************************************************)
(* Fashion Products API server: the in-memory product collection and the   *)
(* route handlers GET/POST/PUT/DELETE on /api/products.                    *)
(*                                                                         *)
(* JavaScript values are records [t, n, s, a]:                             *)
(*   t  the type tag: "undefined" "null" "bool" "num" "nan" "inf" "ninf"   *)
(*      "str" "arr" "obj";                                                 *)
(*   n  a finite number in ticks of 10^-FracDigits (booleans: 0 or 1);     *)
(*   s  the pieces of a string: a whitespace character, a sign, a dot, a   *)
(*      decimal digit, one of the letters a..f, e, E, x, X and the word    *)
(*      Infinity are pieces of their own; any other piece is opaque and    *)
(*      stands for a run of characters that begins with a character that   *)
(*      is none of those and, at the end of a string, ends with a          *)
(*      non-whitespace character;                                          *)
(*   a  the elements of an array.                                          *)
(***************************************************************************)
EXTENDS Integers, Sequences, FiniteSets

\* Resolution of the modelled numbers: digits kept after the decimal point.
FracDigits == 4

RECURSIVE Pow10(_)
Pow10(k) == IF k <= 0 THEN 1 ELSE 10 * Pow10(k - 1)

Scale == Pow10(FracDigits)

V(t, n, s, a) == [t |-> t, n |-> n, s |-> s, a |-> a]

Undefined == V("undefined", 0, <<>>, <<>>)
Null      == V("null", 0, <<>>, <<>>)
NaN       == V("nan", 0, <<>>, <<>>)
Infinity  == V("inf", 0, <<>>, <<>>)
NegInfinity == V("ninf", 0, <<>>, <<>>)
Bool(b)   == V("bool", IF b THEN 1 ELSE 0, <<>>, <<>>)
Ticks(n)  == V("num", n, <<>>, <<>>)
\* The number i + c/100.
Num(i, c) == Ticks(i * Scale + c * (Scale \div 100))
Whole(i)    == Ticks(i * Scale)
Str(s)    == V("str", 0, s, <<>>)
Arr(a)    == V("arr", 0, <<>>, a)
Obj       == V("obj", 0, <<>>, <<>>)

WhiteSpace == {" ", "\t", "\n"}
DigitVal == [d \in {"0","1","2","3","4","5","6","7","8","9"} |->
              CASE d = "0" -> 0 [] d = "1" -> 1 [] d = "2" -> 2 [] d = "3" -> 3
                [] d = "4" -> 4 [] d = "5" -> 5 [] d = "6" -> 6 [] d = "7" -> 7
                [] d = "8" -> 8 [] d = "9" -> 9]
Digits == DOMAIN DigitVal
HexVal == [h \in Digits \cup {"a","b","c","d","e","f"} |->
              CASE h = "a" -> 10 [] h = "b" -> 11 [] h = "c" -> 12
                [] h = "d" -> 13 [] h = "e" -> 14 [] h = "f" -> 15
                [] OTHER -> DigitVal[h]]
DigitChar == <<"0","1","2","3","4","5","6","7","8","9">>

Drop(s, k) == SubSeq(s, k + 1, Len(s))

\* ---------------------------------------------------------------------
\* String.prototype.trim and the scanning helpers of parseInt/parseFloat
\* ---------------------------------------------------------------------
RECURSIVE TrimStart(_)
TrimStart(s) == IF s # <<>> /\ Head(s) \in WhiteSpace THEN TrimStart(Tail(s)) ELSE s

RECURSIVE TrimEnd(_)
TrimEnd(s) == IF s # <<>> /\ s[Len(s)] \in WhiteSpace
              THEN TrimEnd(SubSeq(s, 1, Len(s) - 1)) ELSE s

trim(s) == TrimEnd(TrimStart(s))

\* Number of leading pieces of s that lie in the set D.
RECURSIVE PrefixLen(_, _)
PrefixLen(s, D) == IF s # <<>> /\ Head(s) \in D THEN 1 + PrefixLen(Tail(s), D) ELSE 0

\* Value of a digit sequence in the given radix.
RECURSIVE DigitsValue(_, _)
DigitsValue(ds, radix) ==
  IF ds = <<>> THEN 0
  ELSE DigitsValue(SubSeq(ds, 1, Len(ds) - 1), radix) * radix + HexVal[ds[Len(ds)]]

\* Decimal digits of a natural number.
RECURSIVE NatToPieces(_)
NatToPieces(k) == IF k < 10 THEN <<DigitChar[k + 1]>>
                  ELSE NatToPieces(k \div 10) \o <<DigitChar[(k % 10) + 1]>>

\* The FracDigits digits of a fraction given in ticks, trailing zeros removed.
RECURSIVE FracPieces(_, _)
FracPieces(f, width) ==
  IF f = 0 \/ width = 0 THEN <<>>
  ELSE LET unit == Pow10(width - 1)
       IN  <<DigitChar[(f \div unit) + 1]>> \o FracPieces(f % unit, width - 1)

\* Number::toString of a finite number.
NumberToString(n) ==
  LET m == IF n < 0 THEN -n ELSE n
      body == NatToPieces(m \div Scale) \o
              (IF m % Scale = 0 THEN <<>> ELSE <<".">> \o FracPieces(m % Scale, FracDigits))
  IN  IF n < 0 THEN <<"-">> \o body ELSE body

RECURSIVE ToString(_)
RECURSIVE Join(_)
\* Array.prototype.join(","): null and undefined elements print as nothing.
Join(a) ==
  IF a = <<>> THEN <<>>
  ELSE LET h == IF Head(a).t \in {"undefined", "null"} THEN <<>> ELSE ToString(Head(a))
       IN  IF Len(a) = 1 THEN h ELSE h \o <<",">> \o Join(Tail(a))

ToString(v) ==
  CASE v.t = "str"       -> v.s
    [] v.t = "num"       -> NumberToString(v.n)
    [] v.t = "nan"       -> <<"NaN">>
    [] v.t = "inf"       -> <<"Infinity">>
    [] v.t = "ninf"      -> <<"-", "Infinity">>
    [] v.t = "bool"      -> IF v.n = 1 THEN <<"true">> ELSE <<"false">>
    [] v.t = "null"      -> <<"null">>
    [] v.t = "undefined" -> <<"undefined">>
    [] v.t = "arr"       -> Join(v.a)
    [] OTHER             -> <<"[object Object]">>

\* ---------------------------------------------------------------------
\* parseInt(value) with no radix argument: white space, a sign, 0x or 0X for
\* radix 16, then the longest run of digits; NaN when there is no digit.
\* ---------------------------------------------------------------------
IntDigits(s, radix, D, sign) ==
  IF PrefixLen(s, D) = 0 THEN NaN
  ELSE Whole(sign * DigitsValue(SubSeq(s, 1, PrefixLen(s, D)), radix))

IntUnsigned(s, sign) ==
  IF Len(s) >= 2 /\ s[1] = "0" /\ s[2] \in {"x", "X"}
  THEN IntDigits(Drop(s, 2), 16, DOMAIN HexVal, sign)
  ELSE IntDigits(s, 10, Digits, sign)

IntSigned(s) ==
  IF s # <<>> /\ Head(s) = "-" THEN IntUnsigned(Tail(s), -1)
  ELSE IF s # <<>> /\ Head(s) = "+" THEN IntUnsigned(Tail(s), 1)
  ELSE IntUnsigned(s, 1)

parseInt(v) == IntSigned(TrimStart(ToString(v)))

\* ---------------------------------------------------------------------
\* parseFloat(value): white space, then the longest prefix that is a
\* StrDecimalLiteral: a sign, Infinity or digits, a dot, digits and an
\* exponent; NaN when there is none. Digits beyond the resolution are cut.
\* ---------------------------------------------------------------------
\* The exponent part after e or E counts only when it holds a digit.
FloatExponent(s, ticks, down) ==
  IF PrefixLen(s, Digits) = 0 THEN ticks
  ELSE IF down THEN ticks \div Pow10(DigitsValue(SubSeq(s, 1, PrefixLen(s, Digits)), 10))
  ELSE ticks * Pow10(DigitsValue(SubSeq(s, 1, PrefixLen(s, Digits)), 10))

FloatExponentSigned(s, ticks) ==
  IF s # <<>> /\ Head(s) = "-" THEN FloatExponent(Tail(s), ticks, TRUE)
  ELSE IF s # <<>> /\ Head(s) = "+" THEN FloatExponent(Tail(s), ticks, FALSE)
  ELSE FloatExponent(s, ticks, FALSE)

\* s: what is left to read; frac: the dot was read; unit: ticks of the next
\* fraction digit; ticks: the value read so far; seen: a digit was read.
RECURSIVE FloatDigits(_, _, _, _, _, _)
FloatDigits(s, frac, unit, ticks, seen, sign) ==
  IF s # <<>> /\ Head(s) \in Digits
  THEN IF frac
       THEN FloatDigits(Tail(s), TRUE, unit \div 10, ticks + DigitVal[Head(s)] * unit,
                        TRUE, sign)
       ELSE FloatDigits(Tail(s), FALSE, unit, ticks * 10 + DigitVal[Head(s)] * Scale,
                        TRUE, sign)
  ELSE IF s # <<>> /\ Head(s) = "." /\ ~frac
  THEN FloatDigits(Tail(s), TRUE, Scale \div 10, ticks, seen, sign)
  ELSE IF ~seen THEN NaN
  ELSE IF s # <<>> /\ Head(s) \in {"e", "E"}
  THEN Ticks(sign * FloatExponentSigned(Tail(s), ticks))
  ELSE Ticks(sign * ticks)

FloatUnsigned(s, sign) ==
  IF s # <<>> /\ Head(s) = "Infinity"
  THEN (IF sign < 0 THEN NegInfinity ELSE Infinity)
  ELSE FloatDigits(s, FALSE, 0, 0, FALSE, sign)

FloatSigned(s) ==
  IF s # <<>> /\ Head(s) = "-" THEN FloatUnsigned(Tail(s), -1)
  ELSE IF s # <<>> /\ Head(s) = "+" THEN FloatUnsigned(Tail(s), 1)
  ELSE FloatUnsigned(s, 1)

parseFloat(v) == FloatSigned(TrimStart(ToString(v)))

isNaN(v) == v.t = "nan"

\* x < k and x > k for the result x of parseInt/parseFloat and an integer k.
Less(x, k) ==
  CASE x.t = "num"  -> x.n < k * Scale
    [] x.t = "ninf" -> TRUE
    [] OTHER        -> FALSE

Greater(x, k) ==
  CASE x.t = "num" -> x.n > k * Scale
    [] x.t = "inf" -> TRUE
    [] OTHER       -> FALSE

\* ToBoolean, as used by !x, x ? a : b and x || y.
Truthy(v) ==
  CASE v.t \in {"undefined", "null", "nan"} -> FALSE
    [] v.t \in {"bool", "num"}              -> v.n # 0
    [] v.t = "str"                          -> v.s # <<>>
    [] OTHER                                -> TRUE

Or(x, y) == IF Truthy(x) THEN x ELSE y

\* Only strings have a trim method: calling it on another value throws.
HasTrim(v) == v.t = "str"

isArray(v) == v.t = "arr"

\* ---------------------------------------------------------------------
\* Products, request bodies and responses
\* ---------------------------------------------------------------------
ProductFields == {"id", "title", "description", "price", "discountPercentage",
                  "rating", "stock", "brand", "category", "thumbnail", "images",
                  "createdAt", "updatedAt"}

\* Keys of a request body: the product fields and one key the server does not know.
BodyFields == ProductFields \cup {"extra"}

\* A record in which no field is present.
NoProduct == [f \in ProductFields |-> Undefined]
NoBody    == [f \in BodyFields |-> Undefined]

Text(w) == Str(<<w>>)

SeedProduct(id, title, description, price, discount, rating, stock, brand, category, nImages) ==
  [ id                 |-> Whole(id),
    title              |-> Text(title),
    description        |-> Text(description),
    price              |-> price,
    discountPercentage |-> discount,
    rating             |-> rating,
    stock              |-> Whole(stock),
    brand              |-> Text(brand),
    category           |-> Text(category),
    thumbnail          |-> Str(<<"https://i.dummyjson.com/data/products/">>
                               \o NatToPieces(id) \o <<"/thumbnail.jpg">>),
    images             |-> Arr([k \in 1..nImages |->
                                 Str(<<"https://i.dummyjson.com/data/products/">>
                                     \o NatToPieces(id) \o <<"/">> \o NatToPieces(k)
                                     \o <<".", "jpg">>)]),
    createdAt          |-> Undefined,
    updatedAt          |-> Undefined ]

\* let products = [ ... ]
SeedProducts ==
  << SeedProduct(1, "Classic Denim Jacket",
                 "A timeless denim jacket that never goes out of style",
                 Num(59, 99), Num(10, 50), Num(4, 80), 45, "Levi's", "clothing", 3),
     SeedProduct(2, "Designer Handbag",
                 "Elegant designer handbag with premium leather finish",
                 Num(129, 99), Whole(15), Num(4, 60), 20, "Michael Kors", "accessories", 2),
     SeedProduct(3, "Running Shoes",
                 "Lightweight running shoes with cushioned soles",
                 Num(89, 99), Whole(5), Num(4, 50), 30, "Nike", "footwear", 3),
     SeedProduct(4, "Summer Dress",
                 "Light and flowy summer dress with floral pattern",
                 Num(45, 99), Whole(12), Num(4, 70), 25, "Zara", "clothing", 2),
     SeedProduct(5, "Leather Wallet",
                 "Genuine leather wallet with multiple card slots",
                 Num(35, 99), Whole(8), Num(4, 40), 50, "Fossil", "accessories", 1) >>

\* products.map(p => p.id)
Ids(ps) == [i \in DOMAIN ps |-> ps[i].id]

\* A lookup that takes the id for the place in the list.
findIndexByPlace(ps, id) ==
  IF \E i \in DOMAIN ps : Whole(i) = id THEN CHOOSE i \in DOMAIN ps : Whole(i) = id ELSE 0

\* products.findIndex(p => p.id === id); 0 stands for -1 (sequences start at 1).
findIndex(ps, id) ==
  IF \E i \in DOMAIN ps : ps[i].id = id
  THEN CHOOSE i \in DOMAIN ps : ps[i].id = id /\ \A j \in 1..(i - 1) : ps[j].id # id
  ELSE 0

\* Math.max(...ids) of a non-empty list of finite numbers.
MathMax(ids) == CHOOSE m \in {ids[i] : i \in DOMAIN ids} :
                  \A i \in DOMAIN ids : ids[i].n <= m.n

\* products.splice(index): everything from index on is removed.
spliceRest(ps, index) == SubSeq(ps, 1, index - 1)

\* products.splice(index, 1)
splice(ps, index) == SubSeq(ps, 1, index - 1) \o SubSeq(ps, index + 1, Len(ps))

\* JSON.stringify of a value: NaN and the infinities become null, and so does
\* an undefined array element; an undefined property is left out.
RECURSIVE JSONValue(_)
JSONValue(v) ==
  CASE v.t \in {"nan", "inf", "ninf"} -> Null
    [] v.t = "arr" -> Arr([i \in DOMAIN v.a |->
                            IF v.a[i].t = "undefined" THEN Null ELSE JSONValue(v.a[i])])
    [] OTHER -> v

JSONProduct(p) == [f \in ProductFields |-> JSONValue(p[f])]

\* new Date(ms).toISOString(), ms counted from the start of the server.
Pad3(ms) == <<DigitChar[((ms \div 100) % 10) + 1], DigitChar[((ms \div 10) % 10) + 1],
              DigitChar[(ms % 10) + 1]>>
toISOString(ms) ==
  Str(<<"1", "9", "7", "0", "-", "0", "1", "-", "0", "1", "T00:00:">>
      \o NatToPieces((ms \div 10000) % 6) \o NatToPieces((ms \div 1000) % 10)
      \o <<".">> \o Pad3(ms) \o <<"Z">>)

\* A response: the status and the properties of its JSON body (Undefined,
\* NoProduct: the body has no such property). product is the body itself
\* when the body is a product; products belongs to the body when total does.
Response(status) ==
  [status |-> status, message |-> Undefined, field |-> Undefined,
   received |-> Undefined, availableIds |-> Undefined, product |-> NoProduct,
   deletedProduct |-> NoProduct, remainingProducts |-> Undefined,
   products |-> <<>>, total |-> Undefined, skip |-> Undefined, limit |-> Undefined,
   timestamp |-> Undefined, path |-> Undefined, method |-> Undefined]

InvalidIdMessage == Text("Invalid product ID. ID must be a positive number.")
NotFoundMessage(id) ==
  Str(<<"Product with ID ">> \o ToString(id) \o <<" not found">>)
InternalError == [Response(500) EXCEPT !.message = Text("Internal server error")]

InvalidId(seg) ==
  [Response(400) EXCEPT !.message = InvalidIdMessage, !.received = Str(seg)]
\* A 404 that lists the ids the server started with.
NotFoundSeedIds(ps, id) ==
  [Response(404) EXCEPT !.message = NotFoundMessage(id),
                        !.availableIds = Arr(Ids(SeedProducts))]
NotFound(ps, id) ==
  [Response(404) EXCEPT !.message = NotFoundMessage(id), !.availableIds = Arr(Ids(ps))]
FieldError(message, field, received) ==
  [Response(400) EXCEPT !.message = Text(message), !.field = Text(field),
                        !.received = JSONValue(received)]

\* ---------------------------------------------------------------------
\* Field validation of POST and PUT. Valid: no check failed.
\* ---------------------------------------------------------------------
Valid == Response(0)

PriceCheck(b) ==
  LET price == parseFloat(b.price)
  IN  IF isNaN(price) \/ Less(price, 0)
      THEN FieldError("Price must be a valid positive number", "price", b.price)
      ELSE Valid

\* A check of the stock that forgets the sign.
StockCheckNaNOnly(b) ==
  IF b.stock # Undefined /\ isNaN(parseInt(b.stock))
  THEN FieldError("Stock must be a valid non-negative integer", "stock", b.stock)
  ELSE Valid

StockCheck(b) ==
  LET stock == parseInt(b.stock)
  IN  IF b.stock # Undefined /\ (isNaN(stock) \/ Less(stock, 0))
      THEN FieldError("Stock must be a valid non-negative integer", "stock", b.stock)
      ELSE Valid

\* A check of the discount whose upper bound is open.
DiscountCheckOpen(b) ==
  LET discount == parseFloat(b.discountPercentage)
  IN  IF b.discountPercentage # Undefined
         /\ (isNaN(discount) \/ Less(discount, 0) \/ ~Less(discount, 100))
      THEN FieldError("Discount percentage must be a number between 0 and 100",
                      "discountPercentage", b.discountPercentage)
      ELSE Valid

DiscountCheck(b) ==
  LET discount == parseFloat(b.discountPercentage)
  IN  IF b.discountPercentage # Undefined
         /\ (isNaN(discount) \/ Less(discount, 0) \/ Greater(discount, 100))
      THEN FieldError("Discount percentage must be a number between 0 and 100",
                      "discountPercentage", b.discountPercentage)
      ELSE Valid

RatingCheck(b) ==
  LET rating == parseFloat(b.rating)
  IN  IF b.rating # Undefined
         /\ (isNaN(rating) \/ Less(rating, 0) \/ Greater(rating, 5))
      THEN FieldError("Rating must be a number between 0 and 5", "rating", b.rating)
      ELSE Valid

TitleRequired ==
  [Response(400) EXCEPT !.message = Text("Title is required and cannot be empty"),
                        !.field = Text("title")]
TitleEmpty ==
  [Response(400) EXCEPT !.message = Text("Title cannot be empty"), !.field = Text("title")]
PriceRequired ==
  [Response(400) EXCEPT !.message = Text("Price is required"), !.field = Text("price")]

\* !title || title.trim() === '': calling trim on a truthy value that is not
\* a string throws a TypeError, which the handler's catch turns into a 500.
TitleCheck(b, failure) ==
  IF ~Truthy(b.title) THEN failure
  ELSE IF ~HasTrim(b.title) THEN InternalError
  ELSE IF trim(b.title.s) = <<>> THEN failure
  ELSE Valid

\* Checks run in this order and the first failure is the response.
ValidateCreate(b) ==
  IF TitleCheck(b, TitleRequired) # Valid THEN TitleCheck(b, TitleRequired)
  ELSE IF b.price \in {Undefined, Null} THEN PriceRequired
  ELSE IF PriceCheck(b) # Valid THEN PriceCheck(b)
  ELSE IF StockCheck(b) # Valid THEN StockCheck(b)
  ELSE IF DiscountCheck(b) # Valid THEN DiscountCheck(b)
  ELSE RatingCheck(b)

\* A validation that accepts any title in an update.
ValidateUpdateAnyTitle(b) ==
  IF b.price # Undefined /\ PriceCheck(b) # Valid THEN PriceCheck(b)
  ELSE IF StockCheck(b) # Valid THEN StockCheck(b)
  ELSE IF DiscountCheck(b) # Valid THEN DiscountCheck(b)
  ELSE RatingCheck(b)

\* A validation that looks at the rating first.
ValidateUpdateRatingFirst(b) ==
  IF RatingCheck(b) # Valid THEN RatingCheck(b)
  ELSE IF b.title # Undefined /\ TitleCheck(b, TitleEmpty) # Valid
  THEN TitleCheck(b, TitleEmpty)
  ELSE IF b.price # Undefined /\ PriceCheck(b) # Valid THEN PriceCheck(b)
  ELSE IF StockCheck(b) # Valid THEN StockCheck(b)
  ELSE DiscountCheck(b)

ValidateUpdate(b) ==
  IF b.title # Undefined /\ TitleCheck(b, TitleEmpty) # Valid
  THEN TitleCheck(b, TitleEmpty)
  ELSE IF b.price # Undefined /\ PriceCheck(b) # Valid THEN PriceCheck(b)
  ELSE IF StockCheck(b) # Valid THEN StockCheck(b)
  ELSE IF DiscountCheck(b) # Valid THEN DiscountCheck(b)
  ELSE RatingCheck(b)

\* An id that counts the records.
NextIdByLength(ps) == Whole(Len(ps) + 1)

\* const maxId = products.length > 0 ? Math.max(...products.map(p => p.id)) : 0;
\* const productId = maxId + 1;
NextId(ps) ==
  LET maxId == IF Len(ps) > 0 THEN MathMax(Ids(ps)) ELSE Whole(0)
  IN  Ticks(maxId.n + Scale)

\* A record built without the defaults of the numeric fields.
ProductToCreateNoDefaults(ps, b, t1, t2) ==
  [ id                 |-> NextId(ps),
    title              |-> Str(trim(b.title.s)),
    description        |-> Or(b.description, Str(<<>>)),
    price              |-> parseFloat(b.price),
    discountPercentage |-> parseFloat(b.discountPercentage),
    rating             |-> parseFloat(b.rating),
    stock              |-> parseInt(b.stock),
    brand              |-> Or(b.brand, Str(<<>>)),
    category           |-> Or(b.category, Str(<<>>)),
    thumbnail          |-> Or(b.thumbnail, Str(<<>>)),
    images             |-> IF isArray(b.images) THEN b.images ELSE Arr(<<>>),
    createdAt          |-> toISOString(t1),
    updatedAt          |-> toISOString(t2) ]

\* productToCreate; t1 and t2 are the two readings of the clock.
ProductToCreate(ps, b, t1, t2) ==
  [ id                 |-> NextId(ps),
    title              |-> Str(trim(b.title.s)),
    description        |-> Or(b.description, Str(<<>>)),
    price              |-> parseFloat(b.price),
    discountPercentage |-> IF Truthy(b.discountPercentage)
                           THEN parseFloat(b.discountPercentage) ELSE Whole(0),
    rating             |-> IF Truthy(b.rating) THEN parseFloat(b.rating) ELSE Whole(0),
    stock              |-> IF Truthy(b.stock) THEN parseInt(b.stock) ELSE Whole(0),
    brand              |-> Or(b.brand, Str(<<>>)),
    category           |-> Or(b.category, Str(<<>>)),
    thumbnail          |-> Or(b.thumbnail, Str(<<>>)),
    images             |-> IF isArray(b.images) THEN b.images ELSE Arr(<<>>),
    createdAt          |-> toISOString(t1),
    updatedAt          |-> toISOString(t2) ]

\* A replace: the fields missing from the payload are dropped.
MergeReplace(p, b, t) ==
  [f \in ProductFields |->
     CASE f = "id"        -> p.id
       [] f = "createdAt" -> p.createdAt
       [] f = "updatedAt" -> toISOString(t)
       [] OTHER           -> b[f]]

\* A merge that spreads the payload itself over the record.
MergeSpread(p, b, t) ==
  [f \in ProductFields |->
     IF f = "updatedAt" THEN toISOString(t)
     ELSE IF b[f] # Undefined THEN b[f] ELSE p[f]]

\* { ...products[productIndex], ...sanitizedUpdates }: sanitizedUpdates holds a
\* key for every payload field that is not undefined (images: only an array),
\* and updatedAt; t is the reading of the clock.
Merge(p, b, t) ==
  [ id                 |-> p.id,
    title              |-> IF b.title # Undefined THEN Str(trim(b.title.s)) ELSE p.title,
    description        |-> IF b.description # Undefined THEN b.description
                           ELSE p.description,
    price              |-> IF b.price # Undefined THEN parseFloat(b.price) ELSE p.price,
    discountPercentage |-> IF b.discountPercentage # Undefined
                           THEN parseFloat(b.discountPercentage)
                           ELSE p.discountPercentage,
    rating             |-> IF b.rating # Undefined THEN parseFloat(b.rating) ELSE p.rating,
    stock              |-> IF b.stock # Undefined THEN parseInt(b.stock) ELSE p.stock,
    brand              |-> IF b.brand # Undefined THEN b.brand ELSE p.brand,
    category           |-> IF b.category # Undefined THEN b.category ELSE p.category,
    thumbnail          |-> IF b.thumbnail # Undefined THEN b.thumbnail ELSE p.thumbnail,
    images             |-> IF b.images # Undefined /\ isArray(b.images) THEN b.images
                           ELSE p.images,
    createdAt          |-> p.createdAt,
    updatedAt          |-> toISOString(t) ]

\* ---------------------------------------------------------------------
\* State
\* ---------------------------------------------------------------------
VARIABLES
  products,   \* the in-memory collection
  now,        \* the clock: milliseconds since the server started
  req,        \* the request handled last
  res,        \* the response sent to it
  writes,     \* per method, the number of requests so far that changed the collection
  retired,    \* the ids of the records deleted so far
  loop,       \* the event loop: the requests that arrived and are not answered
              \* yet (pending), the handler calls that began (running), and
              \* the requests answered, each with its response (done)
  page        \* the browser page of public/script.js: the API test button
              \* clicked last, the fetchWithTimeout call made last, and what
              \* deleteProduct did

vars == <<products, now, req, res, writes, retired, loop, page>>

\* Bounds of the exploration: the last reading of the clock, and the number
\* of requests that change the collection.
MaxClock  == 1
MaxWrites == 2

\* ---------------------------------------------------------------------
\* The page (public/script.js): its constants and its state when loaded
\* ---------------------------------------------------------------------
API_TIMEOUT == 10000
MAX_RETRIES == 3
RETRY_DELAY == 1000

\* An Error object: its name and the pieces of its message.
Error(name, message) == [name |-> name, message |-> message]
NoError == Error("", <<>>)

\* The state of one call of fetchWithTimeout.
NoCall ==
  [ method    |-> "",       \* options.method
    url       |-> <<>>,     \* the pieces of the url after API_BASE/api/products
    timeout   |-> 0,        \* the argument timeout
    retries   |-> 0,        \* the argument retries
    promise   |-> "none",   \* the promise returned: pending, resolved, rejected
    response  |-> 0,        \* the status of the response it was resolved with
    error     |-> NoError,  \* the error it was rejected with
    timeoutId |-> "none",   \* the timer of the timeout: armed, fired, cleared
    aborted   |-> FALSE,    \* controller.signal.aborted
    attempt   |-> -1,       \* the argument of the last call of attemptFetch
    inflight  |-> FALSE,    \* fetch was called and has not completed
    retry     |-> -1,       \* the delay of the pending retry timer, -1: none
    fetches   |-> 0,        \* the number of calls of fetch
    outcomes  |-> <<>> ]    \* how each completed attempt ended: "ok" or the
                            \* name of its error, with whether it may be retried

\* An API test button before any click.
NoButton ==
  [ endpoint     |-> "",
    disabled     |-> FALSE,
    textContent  |-> Str(<<>>),
    originalText |-> Undefined,   \* dataset.originalText
    timer        |-> FALSE ]      \* the timer set by enableButton is pending

\* window.location.search, in pieces, and window.testMode.
Window(search, testMode) == [search |-> search, testMode |-> testMode]

\* What the last call of deleteProduct did.
NoDelete ==
  [ id       |-> Undefined,
    win      |-> Window(<<>>, Undefined),
    asked    |-> FALSE,     \* confirm() was called
    answer   |-> FALSE,     \* confirmDelete
    result   |-> "none" ]   \* invalid, endpoint: the promise returned is rejected;
                            \* cancelled: it is resolved with {cancelled: true};
                            \* sent: it is the promise of the request

Loaded ==
  [ button  |-> NoButton,
    call    |-> NoCall,
    by      |-> "",         \* the function that made the call
    waiting |-> FALSE,      \* .finally(enableButton) waits for the request
    remove  |-> NoDelete,
    refresh |-> FALSE ]     \* the timer of the refresh after a delete is pending

\* json: express.json could parse the text of the body.
Request(method, seg, body) ==
  [method |-> method, seg |-> seg, body |-> body, json |-> TRUE]

Init ==
  /\ products = SeedProducts
  /\ now = 0
  /\ req = Request("", <<>>, NoBody)
  /\ res = Response(0)
  /\ writes = [POST |-> 0, PUT |-> 0, DELETE |-> 0]
  /\ retired = {}
  /\ loop = [pending |-> <<>>, running |-> <<>>, done |-> <<>>]
  /\ page = Loaded

\* A reading of the clock: it never runs backwards.
ClockFrom(t) == t..MaxClock

\* A check that lets the id 0 through.
InvalidIdParamNegative(id) == isNaN(id) \/ Less(id, 0)

InvalidIdParam(id) == isNaN(id) \/ ~Greater(id, 0)

\* A list that reports a fixed page size.
GetAllProductsPage(t) ==
  /\ t \in ClockFrom(now)
  /\ req' = Request("GET", <<>>, NoBody)
  /\ UNCHANGED <<loop, page>>
  /\ res' = [Response(200) EXCEPT
               !.products = [i \in DOMAIN products |-> JSONProduct(products[i])],
               !.total = Whole(Len(products)), !.skip = Whole(0),
               !.limit = Whole(Len(SeedProducts)), !.timestamp = toISOString(t)]
  /\ now' = t
  /\ UNCHANGED <<products, writes, retired>>

\* app.get('/api/products')
GetAllProducts(t) ==
  /\ t \in ClockFrom(now)
  /\ req' = Request("GET", <<>>, NoBody)
  /\ UNCHANGED <<loop, page>>
  /\ res' = [Response(200) EXCEPT
               !.products = [i \in DOMAIN products |-> JSONProduct(products[i])],
               !.total = Whole(Len(products)), !.skip = Whole(0),
               !.limit = Whole(Len(products)), !.timestamp = toISOString(t)]
  /\ now' = t
  /\ UNCHANGED <<products, writes, retired>>

\* app.get('/api/products/:id')
GetProduct(seg) ==
  LET id == parseInt(Str(seg))
      index == findIndex(products, id)
  IN  /\ req' = Request("GET", seg, NoBody)
      /\ UNCHANGED <<loop, page>>
      /\ res' = IF InvalidIdParam(id) THEN InvalidId(seg)
                ELSE IF index = 0 THEN NotFound(products, id)
                ELSE [Response(200) EXCEPT !.product = JSONProduct(products[index])]
      /\ UNCHANGED <<products, now, writes, retired>>

\* app.post('/api/products')
CreateProduct(body, t1, t2) ==
  LET failure == ValidateCreate(body)
      productToCreate == ProductToCreate(products, body, t1, t2)
  IN  /\ t1 \in ClockFrom(now) /\ t2 \in ClockFrom(t1)
      /\ req' = Request("POST", <<>>, body)
      /\ UNCHANGED <<loop, page>>
      /\ IF failure # Valid
         THEN /\ t1 = now /\ t2 = now
              /\ res' = failure
              /\ UNCHANGED <<products, now, writes, retired>>
         ELSE /\ products' = Append(products, productToCreate)
              /\ res' = [Response(201) EXCEPT !.product = JSONProduct(productToCreate)]
              /\ now' = t2
              /\ writes' = [writes EXCEPT !.POST = @ + 1]
              /\ UNCHANGED retired

\* A PUT that validates the fields of the payload before it looks for the
\* record.
UpdateProductFieldsFirst(seg, body, t) ==
  LET id == parseInt(Str(seg))
      productIndex == findIndex(products, id)
      failure == ValidateUpdate(body)
      merged == Merge(products[productIndex], body, t)
  IN  /\ t \in ClockFrom(now)
      /\ req' = Request("PUT", seg, body)
      /\ UNCHANGED <<loop, page>>
      /\ IF InvalidIdParam(id) \/ failure # Valid \/ productIndex = 0
         THEN /\ t = now
              /\ res' = IF InvalidIdParam(id) THEN InvalidId(seg)
                        ELSE IF failure # Valid THEN failure
                        ELSE NotFound(products, id)
              /\ UNCHANGED <<products, now, writes, retired>>
         ELSE /\ products' = [products EXCEPT ![productIndex] = merged]
              /\ res' = [Response(200) EXCEPT !.product = JSONProduct(merged)]
              /\ now' = t
              /\ writes' = [writes EXCEPT !.PUT = @ + 1]
              /\ UNCHANGED retired

\* A PUT that merges the payload before it validates its fields.
UpdateProductThenValidate(seg, body, t) ==
  LET id == parseInt(Str(seg))
      productIndex == findIndex(products, id)
      failure == ValidateUpdate(body)
      partial == [f \in BodyFields |->
                    IF f = "title" /\ ~HasTrim(body.title) THEN Undefined ELSE body[f]]
  IN  /\ t \in ClockFrom(now)
      /\ req' = Request("PUT", seg, body)
      /\ UNCHANGED <<loop, page>>
      /\ IF InvalidIdParam(id) \/ productIndex = 0
         THEN /\ t = now
              /\ res' = IF InvalidIdParam(id) THEN InvalidId(seg)
                        ELSE NotFound(products, id)
              /\ UNCHANGED <<products, now, writes, retired>>
         ELSE /\ products' = [products EXCEPT
                                ![productIndex] = Merge(products[productIndex], partial, t)]
              /\ res' = IF failure # Valid THEN failure
                        ELSE [Response(200) EXCEPT
                                !.product = JSONProduct(products'[productIndex])]
              /\ now' = t
              /\ writes' = [writes EXCEPT !.PUT = @ + 1]
              /\ UNCHANGED retired

\* app.put('/api/products/:id')
UpdateProduct(seg, body, t) ==
  LET id == parseInt(Str(seg))
      productIndex == findIndex(products, id)
      failure == ValidateUpdate(body)
      merged == Merge(products[productIndex], body, t)
  IN  /\ t \in ClockFrom(now)
      /\ req' = Request("PUT", seg, body)
      /\ UNCHANGED <<loop, page>>
      /\ IF InvalidIdParam(id) \/ productIndex = 0 \/ failure # Valid
         THEN /\ t = now
              /\ res' = IF InvalidIdParam(id) THEN InvalidId(seg)
                        ELSE IF productIndex = 0 THEN NotFound(products, id)
                        ELSE failure
              /\ UNCHANGED <<products, now, writes, retired>>
         ELSE /\ products' = [products EXCEPT ![productIndex] = merged]
              /\ res' = [Response(200) EXCEPT !.product = JSONProduct(merged)]
              /\ now' = t
              /\ writes' = [writes EXCEPT !.PUT = @ + 1]
              /\ UNCHANGED retired

\* app.delete('/api/products/:id')
DeleteProduct(seg, t) ==
  LET id == parseInt(Str(seg))
      index == findIndex(products, id)
      deletedProduct == products[index]
  IN  /\ t \in ClockFrom(now)
      /\ req' = Request("DELETE", seg, NoBody)
      /\ UNCHANGED <<loop, page>>
      /\ IF InvalidIdParam(id) \/ index = 0
         THEN /\ t = now
              /\ res' = IF InvalidIdParam(id) THEN InvalidId(seg)
                        ELSE NotFound(products, id)
              /\ UNCHANGED <<products, now, writes, retired>>
         ELSE /\ products' = splice(products, index)
              /\ res' = [Response(200) EXCEPT
                           !.message = Text("Product deleted successfully"),
                           !.deletedProduct = JSONProduct(deletedProduct),
                           !.remainingProducts = Whole(Len(splice(products, index))),
                           !.timestamp = toISOString(t)]
              /\ now' = t
              /\ writes' = [writes EXCEPT !.DELETE = @ + 1]
              /\ retired' = retired \cup {deletedProduct.id}

\* ---------------------------------------------------------------------
\* The requests explored
\* ---------------------------------------------------------------------
\* Path segments given as :id.
IdSegments ==
  { <<"abc">>, <<"-", "1">>, <<"0">>, <<"1">>, <<"5">>, <<"6">>, <<"9", "9", "9">> }

PutSegments == { <<"abc">>, <<"0">>, <<"1">>, <<"6">> }

\* { title: "Test Product", price: 29.99 }
MinimalBody == [NoBody EXCEPT !.title = Text("Test Product"), !.price = Num(29, 99)]

\* A payload with every known key, a padded title, a number given as a string,
\* and the server-managed keys id, createdAt and updatedAt.
FullBody ==
  [NoBody EXCEPT
     !.id = Whole(3), !.createdAt = Text("yesterday"), !.updatedAt = Text("yesterday"),
     !.title = Str(<<" ", "Updated Denim Jacket", " ">>),
     !.description = Text("A test product for API testing"),
     !.price = Str(<<"6", "9", ".", "9", "9">>), !.discountPercentage = Whole(5),
     !.rating = Num(4, 50), !.stock = Whole(100), !.brand = Text("TestBrand"),
     !.category = Text("test"), !.thumbnail = Text("https://example.com/thumbnail.jpg"),
     !.images = Arr(<<Text("https://example.com/image1.jpg")>>),
     !.extra = Bool(TRUE)]

EmptyBody == NoBody

\* Only keys the server does not copy.
UnknownKeysBody ==
  [NoBody EXCEPT !.extra = Text("x"), !.id = Whole(2), !.createdAt = Text("yesterday")]

\* { price: 69.99 }
PriceOnlyBody == [NoBody EXCEPT !.price = Num(69, 99)]

\* { title: "Test Product", price: -10 }
NegativePriceBody == [NoBody EXCEPT !.title = Text("Test Product"), !.price = Whole(-10)]

\* { title: 5, price: 1 }: a title that is not a string
NumericTitleBody == [NoBody EXCEPT !.title = Whole(5), !.price = Whole(1)]

PostBodies == { MinimalBody, FullBody, EmptyBody, NegativePriceBody, NumericTitleBody }
PutBodies  == { FullBody, EmptyBody, UnknownKeysBody, PriceOnlyBody, NegativePriceBody,
                NumericTitleBody }

\* The requests that changed the collection stay within the limits: one per
\* method, and ALL for their sum.
Within(limit) ==
  /\ writes'.POST <= limit.POST
  /\ writes'.PUT <= limit.PUT
  /\ writes'.DELETE <= limit.DELETE
  /\ writes'.POST + writes'.PUT + writes'.DELETE <= limit.ALL

\* The limits of the specification Spec: at most MaxWrites requests change
\* the collection.
Limit == [POST |-> MaxWrites, PUT |-> MaxWrites, DELETE |-> MaxWrites, ALL |-> MaxWrites]

\* One request is handled to completion before the next one. Under Spec all
\* requests arrive within the same millisecond.
Next ==
  \/ GetAllProducts(now)
  \/ \E seg \in IdSegments : GetProduct(seg)
  \/ \E body \in PostBodies : CreateProduct(body, now, now) /\ Within(Limit)
  \/ \E seg \in PutSegments, body \in PutBodies :
       UpdateProduct(seg, body, now) /\ Within(Limit)
  \/ \E seg \in IdSegments : DeleteProduct(seg, now) /\ Within(Limit)

Spec == Init /\ [][Next]_vars

\* A client that empties the collection and creates records: any number of
\* deletes, at most MaxWrites creates and one update.
DrainSegments == { <<"1">>, <<"2">>, <<"3">>, <<"4">>, <<"5">> }
DrainLimit ==
  [POST |-> MaxWrites, PUT |-> 1, DELETE |-> Len(SeedProducts) + MaxWrites,
   ALL |-> Len(SeedProducts) + 2 * MaxWrites + 1]

NextDrain ==
  \/ GetAllProducts(now)
  \/ \E seg \in DrainSegments : GetProduct(seg)
  \/ \E body \in {MinimalBody, FullBody, EmptyBody} :
       CreateProduct(body, now, now) /\ Within(DrainLimit)
  \/ \E body \in {EmptyBody, NegativePriceBody} :
       UpdateProduct(<<"1">>, body, now) /\ Within(DrainLimit)
  \/ \E seg \in DrainSegments : DeleteProduct(seg, now) /\ Within(DrainLimit)

SpecDrain == Init /\ [][NextDrain]_vars

\* Requests between which time passes: every reading of the clock is at or
\* after the one before it.
ClockSegments == { <<"1">>, <<"6">>, <<"abc">> }

NextClock ==
  \/ \E t \in ClockFrom(now) : GetAllProducts(t)
  \/ \E seg \in ClockSegments : GetProduct(seg)
  \/ \E body \in {MinimalBody, EmptyBody}, t1 \in ClockFrom(now) :
       \E t2 \in ClockFrom(t1) : CreateProduct(body, t1, t2) /\ Within(Limit)
  \/ \E seg \in ClockSegments, body \in PutBodies, t \in ClockFrom(now) :
       UpdateProduct(seg, body, t) /\ Within(Limit)
  \/ \E seg \in ClockSegments, t \in ClockFrom(now) :
       DeleteProduct(seg, t) /\ Within(Limit)

SpecClock == Init /\ [][NextClock]_vars

\* Payloads that put one value into one field of { title: "Test Product",
\* price: 29.99 }, and payloads with several invalid fields.
With(field, v) == [MinimalBody EXCEPT ![field] = v]

\* 0.0001, the step of the boundary tests.
Epsilon == Scale \div 10000

TitleValues ==
  { Undefined, Null, Str(<<>>), Str(<<" ", "\t">>), Whole(0), Whole(5), Bool(TRUE),
    Arr(<<Text("Test Product")>>), Obj, Str(<<" ", "Denim Jacket", " ">>) }
PriceValues ==
  { Undefined, Null, Whole(-10), Whole(0), Text("abc"), Str(<<"1", "2", ".", "5", "abc">>),
    Str(<<"Infinity">>), Bool(TRUE) }
StockValues ==
  { Null, Whole(-1), Whole(0), Whole(7), Num(3, 70), Str(<<"1", "2">>), Text("abc") }
DiscountValues ==
  { Null, Ticks(-Epsilon), Whole(0), Num(12, 50), Whole(100), Ticks(100 * Scale + Epsilon),
    Whole(150), Str(<<"5", "0">>) }
RatingValues ==
  { Null, Ticks(-Epsilon), Whole(0), Num(4, 50), Whole(5), Ticks(5 * Scale + Epsilon),
    Whole(6) }
ImagesValues ==
  { Text("https://example.com/image1.jpg"), Null, Arr(<<>>), Arr(<<Whole(42)>>),
    Arr(<<Text("https://example.com/image1.jpg"), Text("https://example.com/image2.jpg")>>) }

\* { description: "Product without title and price" }
MissingRequiredBody ==
  [NoBody EXCEPT !.description = Text("Product without title and price")]

\* Several invalid fields at once.
SeveralInvalidBodies ==
  { MissingRequiredBody,
    [NoBody EXCEPT !.price = Whole(-10), !.rating = Whole(6)],
    [NoBody EXCEPT !.title = Str(<<" ">>), !.price = Whole(-10), !.stock = Whole(-1)],
    [MinimalBody EXCEPT !.price = Whole(-10), !.stock = Whole(-1),
                        !.discountPercentage = Whole(150), !.rating = Whole(6)],
    [MinimalBody EXCEPT !.stock = Whole(-1), !.discountPercentage = Whole(150),
                        !.rating = Whole(6)],
    [MinimalBody EXCEPT !.discountPercentage = Whole(150), !.rating = Whole(6)],
    [NoBody EXCEPT !.stock = Whole(-1), !.rating = Whole(6)],
    [NoBody EXCEPT !.discountPercentage = Whole(150), !.rating = Whole(6)] }

FieldBodies ==
  {With("title", v) : v \in TitleValues} \cup {With("price", v) : v \in PriceValues}
    \cup {With("stock", v) : v \in StockValues}
    \cup {With("discountPercentage", v) : v \in DiscountValues}
    \cup {With("rating", v) : v \in RatingValues}
    \cup {With("images", v) : v \in ImagesValues}
    \cup SeveralInvalidBodies

\* A client that tries the field values: it sends a payload in a POST and
\* then the same payload in a PUT; at most one create and one update change
\* the collection, and no POST follows the update.
FieldSegments == { <<"1">>, <<"6">> }
FieldLimit == [POST |-> 1, PUT |-> 1, DELETE |-> 0, ALL |-> 2]

NextFields ==
  \/ GetAllProducts(now)
  \/ \E body \in FieldBodies :
       writes.PUT = 0 /\ CreateProduct(body, now, now) /\ Within(FieldLimit)
  \/ \E seg \in FieldSegments :
       req.method = "POST" /\ UpdateProduct(seg, req.body, now) /\ Within(FieldLimit)

SpecFields == Init /\ [][NextFields]_vars

\* express.json (body-parser) on a body that is not JSON: it passes on an
\* error made by http-errors, whose status and statusCode are 400 and whose
\* message is that of the SyntaxError of JSON.parse.
JsonSyntaxError ==
  [statusCode |-> 400, status |-> 400, message |-> Text("Unexpected end of JSON input")]

\* req.url of a request to the product routes.
Url(seg) == Str(<<"/api/products">> \o (IF seg = <<>> THEN <<>> ELSE <<"/">> \o seg))

\* The global error handler middleware; an error property that is 0 or
\* Undefined is one the error does not have.
ErrorHandler(err, r, t) ==
  LET statusCode == IF err.statusCode # 0 THEN err.statusCode
                    ELSE IF err.status # 0 THEN err.status ELSE 500
  IN  [Response(statusCode) EXCEPT
         !.message = Or(err.message, Text("Internal server error occurred")),
         !.timestamp = toISOString(t), !.path = Url(r.seg), !.method = Text(r.method)]

\* A POST or PUT whose body is not JSON: express.json raises before the
\* route handler runs and the error reaches the global error handler.
JsonBodyRejected(method, seg, t) ==
  /\ t \in ClockFrom(now)
  /\ req' = [Request(method, seg, NoBody) EXCEPT !.json = FALSE]
  /\ UNCHANGED <<loop, page>>
  /\ res' = ErrorHandler(JsonSyntaxError, req', t)
  /\ now' = t
  /\ UNCHANGED <<products, writes, retired>>

\* The requests of Spec, and requests whose body is not JSON.
NextErrors ==
  \/ Next
  \/ JsonBodyRejected("POST", <<>>, now)
  \/ \E seg \in PutSegments : JsonBodyRejected("PUT", seg, now)

SpecErrors == Init /\ [][NextErrors]_vars

\* Id segments that begin with the digits of an id of the collection and go
\* on: 1abc, 1.5, 2e3.
LooseSegments == { <<"1", "abc">>, <<"1", ".", "5">>, <<"2", "e", "3">> }

\* The requests of Spec, and requests with such id segments.
NextSegments ==
  \/ Next
  \/ \E seg \in LooseSegments : GetProduct(seg)
  \/ \E seg \in LooseSegments, body \in {PriceOnlyBody, NegativePriceBody} :
       UpdateProduct(seg, body, now) /\ Within(Limit)
  \/ \E seg \in LooseSegments : DeleteProduct(seg, now) /\ Within(Limit)

SpecSegments == Init /\ [][NextSegments]_vars

\* ---------------------------------------------------------------------
\* The server of app.js: the same routes with fewer checks. Its records are
\* the request bodies themselves, so they hold every key of a payload; a
\* response shows the product keys of a record.
\* ---------------------------------------------------------------------
AppProduct(p) == [f \in BodyFields |-> IF f \in DOMAIN p THEN p[f] ELSE Undefined]

\* let products = [ ... ] of app.js
AppSeedProducts == [i \in DOMAIN SeedProducts |-> AppProduct(SeedProducts[i])]

AppInit ==
  /\ products = AppSeedProducts
  /\ now = 0
  /\ req = Request("", <<>>, NoBody)
  /\ res = Response(0)
  /\ writes = [POST |-> 0, PUT |-> 0, DELETE |-> 0]
  /\ retired = {}
  /\ loop = [pending |-> <<>>, running |-> <<>>, done |-> <<>>]
  /\ page = Loaded

AppError(status, message) == [Response(status) EXCEPT !.message = Text(message)]

\* app.get('/api/products/:id') of app.js
AppGetProduct(seg) ==
  LET id == parseInt(Str(seg))
      index == findIndex(products, id)
  IN  /\ req' = Request("GET", seg, NoBody)
      /\ res' = IF isNaN(id) THEN AppError(400, "Invalid product ID")
                ELSE IF index = 0 THEN [Response(404) EXCEPT !.message = NotFoundMessage(id)]
                ELSE [Response(200) EXCEPT !.product = JSONProduct(products[index])]
      /\ UNCHANGED <<products, now, writes, retired, loop, page>>

\* The checks of app.post of app.js.
AppValidateCreate(b) ==
  IF ~Truthy(b.title) \/ ~Truthy(b.price)
  THEN AppError(400, "Title and price are required fields")
  ELSE IF isNaN(parseFloat(b.price)) THEN AppError(400, "Price must be a valid number")
  ELSE IF Truthy(b.stock) /\ isNaN(parseInt(b.stock))
  THEN AppError(400, "Stock must be a valid integer")
  ELSE IF Truthy(b.discountPercentage) /\ isNaN(parseFloat(b.discountPercentage))
  THEN AppError(400, "Discount percentage must be a valid number")
  ELSE IF Truthy(b.rating) /\ isNaN(parseFloat(b.rating))
  THEN AppError(400, "Rating must be a valid number")
  ELSE Valid

\* newProduct after the id and the defaults are set: the body itself.
AppNewProduct(ps, b) ==
  [f \in BodyFields |->
     CASE f = "id" -> Ticks(MathMax(Ids(ps) \o <<Whole(0)>>).n + Scale)
       [] f \in {"rating", "stock", "discountPercentage"} -> Or(b[f], Whole(0))
       [] f \in {"brand", "category", "thumbnail"} -> Or(b[f], Str(<<>>))
       [] f = "images" -> Or(b[f], Arr(<<>>))
       [] OTHER -> b[f]]

\* app.post('/api/products') of app.js
AppCreateProduct(body) ==
  LET failure == AppValidateCreate(body)
      newProduct == AppNewProduct(products, body)
  IN  /\ req' = Request("POST", <<>>, body)
      /\ IF failure # Valid
         THEN /\ res' = failure
              /\ UNCHANGED <<products, writes>>
         ELSE /\ products' = Append(products, newProduct)
              /\ res' = [Response(201) EXCEPT !.product = JSONProduct(newProduct)]
              /\ writes' = [writes EXCEPT !.POST = @ + 1]
      /\ UNCHANGED <<now, retired, loop, page>>

\* { ...products[productIndex], ...updates }
AppSpread(p, b) == [f \in BodyFields |-> IF b[f] # Undefined THEN b[f] ELSE p[f]]

\* app.put('/api/products/:id') of app.js
AppUpdateProduct(seg, body) ==
  LET id == parseInt(Str(seg))
      productIndex == findIndex(products, id)
      merged == AppSpread(products[productIndex], body)
  IN  /\ req' = Request("PUT", seg, body)
      /\ IF isNaN(id) \/ productIndex = 0
            \/ (Truthy(body.price) /\ isNaN(parseFloat(body.price)))
            \/ (Truthy(body.stock) /\ isNaN(parseInt(body.stock)))
         THEN /\ res' = IF isNaN(id) THEN AppError(400, "Invalid product ID")
                        ELSE IF productIndex = 0
                        THEN [Response(404) EXCEPT !.message = NotFoundMessage(id)]
                        ELSE IF Truthy(body.price) /\ isNaN(parseFloat(body.price))
                        THEN AppError(400, "Price must be a valid number")
                        ELSE AppError(400, "Stock must be a valid integer")
              /\ UNCHANGED <<products, writes>>
         ELSE /\ products' = [products EXCEPT ![productIndex] = merged]
              /\ res' = [Response(200) EXCEPT !.product = JSONProduct(merged)]
              /\ writes' = [writes EXCEPT !.PUT = @ + 1]
      /\ UNCHANGED <<now, retired, loop, page>>

\* app.delete('/api/products/:id') of app.js; the response names the
\* deleted record product.
AppDeleteProduct(seg) ==
  LET id == parseInt(Str(seg))
      index == findIndex(products, id)
  IN  /\ req' = Request("DELETE", seg, NoBody)
      /\ IF isNaN(id) \/ index = 0
         THEN /\ res' = IF isNaN(id) THEN AppError(400, "Invalid product ID")
                        ELSE [Response(404) EXCEPT !.message = NotFoundMessage(id)]
              /\ UNCHANGED <<products, writes, retired>>
         ELSE /\ products' = splice(products, index)
              /\ res' = [Response(200) EXCEPT
                           !.message = Text("Product deleted successfully"),
                           !.product = JSONProduct(products[index])]
              /\ writes' = [writes EXCEPT !.DELETE = @ + 1]
              /\ retired' = retired \cup {products[index].id}
      /\ UNCHANGED <<now, loop, page>>

AppBodies == { MinimalBody, FullBody, EmptyBody, UnknownKeysBody, PriceOnlyBody }

NextApp ==
  \/ \E seg \in PutSegments : AppGetProduct(seg)
  \/ \E body \in AppBodies : AppCreateProduct(body) /\ Within(Limit)
  \/ \E seg \in PutSegments, body \in AppBodies : AppUpdateProduct(seg, body) /\ Within(Limit)
  \/ \E seg \in PutSegments : AppDeleteProduct(seg) /\ Within(Limit)

SpecApp == AppInit /\ [][NextApp]_vars

\* ---------------------------------------------------------------------
\* Requests that arrive concurrently. Node runs a handler call from its
\* first statement to its last before it starts another one: the handlers
\* of POST and DELETE are functions without await or callback. Here a
\* handler call is two steps, the one that reads the collection and the one
\* that writes it, so that an interleaving is something the model can show.
\* ---------------------------------------------------------------------
\* Requests that arrived and are not answered or answered, at most.
MaxRequests == 3

\* A handler call in progress: its request, where it is, its local value
\* (productId of a POST, index of a DELETE), and the number of other
\* requests that were pending when it began.
Frame(r, pc, local, behind) == [r |-> r, pc |-> pc, local |-> local, behind |-> behind]

Without(q, i) == SubSeq(q, 1, i - 1) \o SubSeq(q, i + 1, Len(q))

\* A request arrives while others are pending or being handled.
Arrive(r) ==
  /\ Len(loop.pending) + Len(loop.running) + Len(loop.done) < MaxRequests
  /\ loop' = [loop EXCEPT !.pending = Append(@, r)]
  /\ UNCHANGED <<products, now, req, res, writes, retired, page>>

\* A handler call begins only when no other is in progress.
MayBegin(running) == running = <<>>

\* The event loop calls the handler of one of the pending requests.
Begin(i) ==
  /\ i \in DOMAIN loop.pending
  /\ MayBegin(loop.running)
  /\ loop' = [loop EXCEPT
                !.pending = Without(@, i),
                !.running = Append(@, Frame(loop.pending[i], "read", Undefined,
                                            Len(loop.pending) - 1))]
  /\ UNCHANGED <<products, now, req, res, writes, retired, page>>

\* The handler call k ends with the response r.
Answer(k, response) ==
  /\ req' = loop.running[k].r
  /\ res' = response
  /\ loop' = [loop EXCEPT
                !.running = Without(@, k),
                !.done = Append(@, [req |-> loop.running[k].r, res |-> response,
                                    behind |-> loop.running[k].behind])]

\* app.post('/api/products') up to const productId = maxId + 1
CreateRead(k) ==
  LET f == loop.running[k]
      failure == ValidateCreate(f.r.body)
  IN  /\ k \in DOMAIN loop.running
      /\ f.r.method = "POST" /\ f.pc = "read"
      /\ IF failure # Valid
         THEN Answer(k, failure)
         ELSE /\ loop' = [loop EXCEPT !.running[k].pc = "write",
                                      !.running[k].local = NextId(products)]
              /\ UNCHANGED <<req, res>>
      /\ UNCHANGED <<products, now, writes, retired, page>>

\* app.post('/api/products') from const productToCreate to res.status(201)
CreateWrite(k) ==
  LET f == loop.running[k]
      productToCreate ==
        [ProductToCreate(products, f.r.body, now, now) EXCEPT !.id = f.local]
  IN  /\ k \in DOMAIN loop.running
      /\ f.r.method = "POST" /\ f.pc = "write"
      /\ products' = Append(products, productToCreate)
      /\ Answer(k, [Response(201) EXCEPT !.product = JSONProduct(productToCreate)])
      /\ writes' = [writes EXCEPT !.POST = @ + 1]
      /\ UNCHANGED <<now, retired, page>>

\* app.delete('/api/products/:id') up to the 404
DeleteRead(k) ==
  LET f == loop.running[k]
      id == parseInt(Str(f.r.seg))
      index == findIndex(products, id)
  IN  /\ k \in DOMAIN loop.running
      /\ f.r.method = "DELETE" /\ f.pc = "read"
      /\ IF InvalidIdParam(id) THEN Answer(k, InvalidId(f.r.seg))
         ELSE IF index = 0 THEN Answer(k, NotFound(products, id))
         ELSE /\ loop' = [loop EXCEPT !.running[k].pc = "write",
                                      !.running[k].local = Whole(index)]
              /\ UNCHANGED <<req, res>>
      /\ UNCHANGED <<products, now, writes, retired, page>>

\* app.delete('/api/products/:id') from const deletedProduct to res.json;
\* at an index past the end the copy is empty and splice removes nothing.
DeleteWrite(k) ==
  LET f == loop.running[k]
      index == f.local.n \div Scale
      inside == index \in DOMAIN products
      deletedProduct == IF inside THEN products[index] ELSE NoProduct
      remaining == IF inside THEN splice(products, index) ELSE products
  IN  /\ k \in DOMAIN loop.running
      /\ f.r.method = "DELETE" /\ f.pc = "write"
      /\ products' = remaining
      /\ Answer(k, [Response(200) EXCEPT
                      !.message = Text("Product deleted successfully"),
                      !.deletedProduct = JSONProduct(deletedProduct),
                      !.remainingProducts = Whole(Len(remaining)),
                      !.timestamp = toISOString(now)])
      /\ writes' = [writes EXCEPT !.DELETE = @ + 1]
      /\ retired' = IF inside THEN retired \cup {deletedProduct.id} ELSE retired
      /\ UNCHANGED <<now, page>>

\* The requests that arrive together.
LoopRequests ==
  { Request("POST", <<>>, MinimalBody), Request("POST", <<>>, NegativePriceBody),
    Request("DELETE", <<"5">>, NoBody), Request("DELETE", <<"6">>, NoBody) }

NextLoop ==
  \/ \E r \in LoopRequests : Arrive(r)
  \/ \E i \in 1..MaxRequests : Begin(i)
  \/ \E k \in 1..MaxRequests : CreateRead(k)
  \/ \E k \in 1..MaxRequests : CreateWrite(k)
  \/ \E k \in 1..MaxRequests : DeleteRead(k)
  \/ \E k \in 1..MaxRequests : DeleteWrite(k)

SpecLoop == Init /\ [][NextLoop]_vars

\* ---------------------------------------------------------------------
\* The page: fetchWithTimeout
\* ---------------------------------------------------------------------
\* String.prototype.includes for a word that is one piece of the string.
Includes(s, word) == \E i \in DOMAIN s : s[i] = word

\* The errors of fetch: a network failure as Chrome and as Safari word it,
\* and the abort of the signal.
FailedToFetch == Error("TypeError", <<"Failed to ", "fetch">>)
LoadFailed    == Error("TypeError", <<"Load failed">>)
AbortError    == Error("AbortError", <<"signal is aborted without reason">>)
TimeoutError(timeout) ==
  Error("Error", <<"Request ", "timeout", " after ">> \o NatToPieces(timeout) \o <<"ms">>)

NetworkErrors == { FailedToFetch, LoadFailed }
Statuses == { 200, 201, 404 }

clearTimeout(id) == IF id = "armed" THEN "cleared" ELSE id

resolve(c, response) ==
  IF c.promise = "pending"
  THEN [c EXCEPT !.promise = "resolved", !.response = response]
  ELSE c

reject(c, error) ==
  IF c.promise = "pending"
  THEN [c EXCEPT !.promise = "rejected", !.error = error]
  ELSE c

\* .then(response => { clearTimeout(timeoutId); resolve(response); })
Then(c, response) ==
  resolve([c EXCEPT !.timeoutId = clearTimeout(@), !.inflight = FALSE,
                    !.outcomes = Append(@, NoError)], response)

\* The condition of a retry, and one that allows an attempt too many.
MayRetryOnceMore(c, error) ==
  c.attempt <= c.retries /\ (error.name = "AbortError" \/ Includes(error.message, "fetch"))

MayRetry(c, error) ==
  c.attempt < c.retries /\ (error.name = "AbortError" \/ Includes(error.message, "fetch"))

\* .catch(error => { clearTimeout(timeoutId); if (...) setTimeout(...) else reject(error) })
Catch(c, error) ==
  IF MayRetry(c, error)
  THEN [c EXCEPT !.timeoutId = clearTimeout(@), !.inflight = FALSE,
                 !.outcomes = Append(@, error),
                 !.retry = RETRY_DELAY * c.attempt]
  ELSE reject([c EXCEPT !.timeoutId = clearTimeout(@), !.inflight = FALSE,
                        !.outcomes = Append(@, error)], error)

\* attemptFetch(attempt): fetch is called; with a signal that is aborted
\* already it rejects at once, and the catch runs before any other task.
attemptFetch(c, attempt) ==
  IF c.aborted
  THEN Catch([c EXCEPT !.attempt = attempt, !.fetches = @ + 1, !.retry = -1],
             AbortError)
  ELSE [c EXCEPT !.attempt = attempt, !.fetches = @ + 1, !.retry = -1,
                 !.inflight = TRUE]

\* fetchWithTimeout(url, options, timeout, retries) up to its return: the
\* timer of the timeout is set and attemptFetch(0) is called.
fetchWithTimeout(method, url, timeout, retries) ==
  attemptFetch([NoCall EXCEPT !.method = method, !.url = url,
                              !.timeout = timeout, !.retries = retries,
                              !.promise = "pending", !.timeoutId = "armed"], 0)

\* The callback of the timeout: controller.abort() rejects the fetch in
\* flight, reject() settles the promise, and then the catch of that fetch runs.
Timeout(c) ==
  IF c.inflight
  THEN Catch(reject([c EXCEPT !.timeoutId = "fired", !.aborted = TRUE],
                    TimeoutError(c.timeout)), AbortError)
  ELSE reject([c EXCEPT !.timeoutId = "fired", !.aborted = TRUE],
              TimeoutError(c.timeout))

\* ---------------------------------------------------------------------
\* The page: the API test buttons and the functions they call
\* ---------------------------------------------------------------------
\* textContent.replace('Loading...', 'Test'): the first occurrence only.
RECURSIVE ReplaceLoading(_)
ReplaceLoading(s) ==
  IF s = <<>> THEN <<>>
  ELSE IF Head(s) = "Loading..." THEN <<"Test">> \o Tail(s)
  ELSE <<Head(s)>> \o ReplaceLoading(Tail(s))

setButtonLoading(button, isLoading) ==
  IF isLoading
  THEN [button EXCEPT !.disabled = TRUE, !.originalText = button.textContent,
                      !.textContent = Text("Loading...")]
  ELSE [button EXCEPT !.disabled = FALSE,
                      !.textContent = Or(button.originalText,
                                         Str(ReplaceLoading(button.textContent.s))),
                      !.originalText = Undefined]

\* const enableButton = () => { setTimeout(..., 1000) }
enableButton(pg) == [pg EXCEPT !.button.timer = TRUE, !.waiting = FALSE]

\* new URL(endpoint) and the test of its protocol: every endpoint starts with
\* API_BASE, 'http://localhost:3000'.
API_BASE == [protocol |-> "http:", host |-> "localhost:3000"]
validateApiEndpoint(base, path) == base.protocol \in {"http:", "https:"}

\* What a function of the page did: it threw ("throw"), it returned a promise
\* that is settled already ("resolved", "rejected"), or it returned the
\* promise of a request ("request").
Returned(kind, pg) == [kind |-> kind, page |-> pg]

Requested(pg, by, method, url) ==
  IF validateApiEndpoint(API_BASE, url)
  THEN Returned("request",
                [pg EXCEPT !.by = by,
                           !.call = fetchWithTimeout(method, url, API_TIMEOUT, MAX_RETRIES)])
  ELSE Returned("rejected", pg)

AtMost(x, k) == ~isNaN(x) /\ ~Greater(x, k)

\* x > k, computed without k * Scale, which for a large k is out of range.
Exceeds(x, k) ==
  CASE x.t = "num" -> x.n \div Scale > k \/ (x.n \div Scale = k /\ x.n % Scale > 0)
    [] x.t = "inf" -> TRUE
    [] OTHER       -> FALSE

fetchAllProducts(pg) == Requested(pg, "fetchAllProducts", "GET", <<>>)

fetchProduct(pg, id) ==
  IF ~Truthy(id) \/ isNaN(id) \/ AtMost(id, 0)
  THEN Returned("rejected", pg)
  ELSE Requested(pg, "fetchProduct", "GET", ToString(id))

\* The titles used when the page has no element product-title, character by
\* character.
NewFashionItem ==
  <<"N", "e", "w", " ", "F", "a", "s", "h", "i", "o", "n", " ", "I", "t", "e", "m">>
UpdatedProductName ==
  <<"U", "p", "d", "a", "t", "e", "d", " ", "P", "r", "o", "d", "u", "c", "t", " ",
    "N", "a", "m", "e">>

\* The form: title and price are Null when the element is missing, else the
\* value of the element, which is Undefined when the element is not an input.
createProduct(pg, form) ==
  LET productTitle == IF form.title = Null THEN Str(NewFashionItem)
                      ELSE Str(trim(form.title.s))
      productPrice == IF form.price = Null THEN Num(79, 99) ELSE parseFloat(form.price)
  IN  IF form.title # Null /\ ~HasTrim(form.title) THEN Returned("throw", pg)
      ELSE IF ~Truthy(productTitle) \/ Len(productTitle.s) < 2
              \/ ~Truthy(productPrice) \/ isNaN(productPrice) \/ AtMost(productPrice, 0)
              \/ Exceeds(productPrice, 999999)
      THEN Returned("rejected", pg)
      ELSE Requested(pg, "createProduct", "POST", <<>>)

updateProduct(pg, id, form) ==
  LET productTitle == IF form.title = Null THEN Str(UpdatedProductName)
                      ELSE Str(trim(form.title.s))
      productPrice == IF form.price = Null THEN Num(99, 99) ELSE parseFloat(form.price)
      hasTitle == Truthy(productTitle) /\ productTitle # Str(UpdatedProductName)
      hasPrice == Truthy(productPrice) /\ productPrice # Num(99, 99)
  IN  IF ~Truthy(id) \/ isNaN(id) \/ AtMost(id, 0) THEN Returned("rejected", pg)
      ELSE IF form.title # Null /\ ~HasTrim(form.title) THEN Returned("throw", pg)
      ELSE IF (hasTitle /\ Len(productTitle.s) < 2)
              \/ (Truthy(productPrice) /\ (isNaN(productPrice) \/ AtMost(productPrice, 0)))
              \/ (Truthy(productPrice) /\ Exceeds(productPrice, 999999))
      THEN Returned("rejected", pg)
      ELSE IF ~hasTitle /\ ~hasPrice THEN Returned("rejected", pg)
      ELSE Requested(pg, "updateProduct", "PUT", ToString(id))

\* window.location.search.includes('test=true') || window.testMode === true
IsTestMode(win) == Includes(win.search, "test=true") \/ win.testMode = Bool(TRUE)

\* A variant that sends the request whatever the dialog returned.
deleteProductUnconfirmed(pg, id, win, answer) ==
  LET isTestMode == IsTestMode(win)
      did == [NoDelete EXCEPT !.id = id, !.win = win]
      sent == Requested([pg EXCEPT !.remove = [did EXCEPT !.asked = ~isTestMode,
                                                            !.answer = isTestMode \/ answer,
                                                            !.result = "sent"]],
                       "deleteProduct", "DELETE", ToString(id))
  IN  IF ~Truthy(id) \/ isNaN(id) \/ AtMost(id, 0)
      THEN Returned("rejected", [pg EXCEPT !.remove = [did EXCEPT !.result = "invalid"]])
      ELSE sent

\* deleteProduct(id): answer is what confirm() returns when it is called.
deleteProduct(pg, id, win, answer) ==
  LET isTestMode == IsTestMode(win)
      confirmDelete == IF isTestMode THEN TRUE ELSE answer
      did == [NoDelete EXCEPT !.id = id, !.win = win]
      asked == [did EXCEPT !.asked = ~isTestMode, !.answer = confirmDelete]
  IN  IF ~Truthy(id) \/ isNaN(id) \/ AtMost(id, 0)
      THEN Returned("rejected", [pg EXCEPT !.remove = [did EXCEPT !.result = "invalid"]])
      ELSE IF ~confirmDelete
      THEN Returned("resolved", [pg EXCEPT !.remove = [asked EXCEPT !.result = "cancelled"]])
      ELSE IF ~validateApiEndpoint(API_BASE, ToString(id))
      THEN Returned("rejected", [pg EXCEPT !.remove = [asked EXCEPT !.result = "endpoint"]])
      ELSE Requested([pg EXCEPT !.remove = [asked EXCEPT !.result = "sent"]],
                    "deleteProduct", "DELETE", ToString(id))

\* switch(endpoint) of handleApiTest
Route(pg, endpoint, productId, form, win, answer) ==
  CASE endpoint = "get-all" -> fetchAllProducts(pg)
    [] endpoint = "get-one" -> fetchProduct(pg, productId)
    [] endpoint = "create"  -> createProduct(pg, form)
    [] endpoint = "update"  -> updateProduct(pg, productId, form)
    [] endpoint = "delete"  -> deleteProduct(pg, productId, win, answer)
    [] OTHER                -> Returned("unknown", pg)

\* handleApiTest(event) for the button of an endpoint: idInput is Null when
\* the element product-id is missing, else its value.
handleApiTest(pg, label, endpoint, idInput, form, win, answer) ==
  LET loading == [pg EXCEPT !.button = setButtonLoading(
                       [NoButton EXCEPT !.endpoint = endpoint, !.textContent = label],
                       TRUE)]
      productId == IF idInput = Null THEN Whole(1) ELSE parseInt(idInput)
      routed == Route(loading, endpoint, productId, form, win, answer)
  IN  IF endpoint \in {"get-one", "update", "delete"}
         /\ (isNaN(productId) \/ AtMost(productId, 0))
      THEN enableButton(loading)
      ELSE IF routed.kind = "request" THEN [routed.page EXCEPT !.waiting = TRUE]
      ELSE enableButton(routed.page)

\* The reactions to the promise of the request when the call goes to the
\* state c: the timer of the refresh that createProduct, updateProduct and
\* deleteProduct set after a response that is ok, and .finally(enableButton).
After(pg, c) ==
  IF pg.call.promise = "pending" /\ c.promise # "pending"
  THEN [pg EXCEPT !.call = c,
                  !.waiting = FALSE,
                  !.button.timer = @ \/ pg.waiting,
                  !.refresh = @ \/ (pg.by \in {"createProduct", "updateProduct",
                                                "deleteProduct"}
                                    /\ c.promise = "resolved"
                                    /\ c.response \in 200..299)]
  ELSE [pg EXCEPT !.call = c]

\* Nothing of the page is in progress.
Quiet(pg) ==
  /\ ~pg.button.disabled /\ ~pg.button.timer /\ ~pg.waiting /\ ~pg.refresh
  /\ pg.call.promise # "pending" /\ ~pg.call.inflight
  /\ pg.call.retry = -1 /\ pg.call.timeoutId # "armed"

Server == <<products, now, req, res, writes, retired, loop>>

\* A click on the API test button of an endpoint, once nothing is in progress:
\* what is left of the call before is unreachable then and is forgotten.
Click(label, endpoint, idInput, form, win, answer) ==
  /\ Quiet(page)
  /\ page' = handleApiTest(Loaded, label, endpoint, idInput, form, win, answer)
  /\ UNCHANGED Server

\* A call of deleteProduct from a test of the page.
CallDelete(id, win, answer) ==
  /\ Quiet(page)
  /\ page' = deleteProduct(Loaded, id, win, answer).page
  /\ UNCHANGED Server

\* The fetch in flight completes with a response.
FetchResolves(status) ==
  /\ page.call.inflight
  /\ page' = After(page, Then(page.call, status))
  /\ UNCHANGED Server

\* The fetch in flight fails.
FetchRejects(error) ==
  /\ page.call.inflight
  /\ page' = After(page, Catch(page.call, error))
  /\ UNCHANGED Server

\* The timer of the timeout fires.
TimeoutFires ==
  /\ page.call.timeoutId = "armed"
  /\ page' = After(page, Timeout(page.call))
  /\ UNCHANGED Server

\* The timer of a retry fires.
RetryFires ==
  /\ page.call.retry # -1
  /\ page' = After(page, attemptFetch(page.call, page.call.attempt + 1))
  /\ UNCHANGED Server

\* The timer set by enableButton fires.
EnableFires ==
  /\ page.button.timer
  /\ page' = [page EXCEPT !.button = [setButtonLoading(@, FALSE) EXCEPT !.timer = FALSE]]
  /\ UNCHANGED Server

\* The timer of the refresh after a delete fires.
RefreshFires ==
  /\ page.refresh
  /\ page' = fetchAllProducts([page EXCEPT !.refresh = FALSE]).page
  /\ UNCHANGED Server

Label(endpoint) == Str(<<"Test ", endpoint>>)
ButtonEndpoints == { "get-all", "get-one", "create", "update", "delete", "export" }
IdInputs == { Null, Str(<<"1">>), Str(<<"0">>), Str(<<"a", "b", "c">>) }
Forms ==
  { [title |-> Null, price |-> Null],
    [title |-> Str(<<"T", "e", "e">>), price |-> Str(<<"2", "5">>)],
    [title |-> Str(<<"x">>), price |-> Str(<<"2", "5">>)],
    [title |-> Undefined, price |-> Str(<<"2", "5">>)] }
Windows ==
  { Window(<<>>, Undefined), Window(<<"?", "test=true">>, Undefined),
    Window(<<"?", "test=false">>, Bool(FALSE)), Window(<<>>, Bool(TRUE)) }
DeleteIds == { Undefined, NaN, Whole(0), Whole(-3), Whole(5), Infinity }

NextPage ==
  \/ \E endpoint \in ButtonEndpoints, idInput \in IdInputs, form \in Forms,
        win \in Windows, answer \in BOOLEAN :
       Click(Label(endpoint), endpoint, idInput, form, win, answer)
  \/ \E id \in DeleteIds, win \in Windows, answer \in BOOLEAN : CallDelete(id, win, answer)
  \/ \E status \in Statuses : FetchResolves(status)
  \/ \E error \in NetworkErrors : FetchRejects(error)
  \/ TimeoutFires
  \/ RetryFires
  \/ EnableFires
  \/ RefreshFires

SpecPage == Init /\ [][NextPage]_vars

\* Timers fire; nothing makes a fetch complete.
SpecPageFair ==
  /\ Init /\ [][NextPage]_vars
  /\ WF_vars(TimeoutFires) /\ WF_vars(RetryFires)
  /\ WF_vars(EnableFires) /\ WF_vars(RefreshFires)



\* ---------------------------------------------------------------------
\* Properties
\* ---------------------------------------------------------------------
\* The request handled last and the one being handled address a record.
ById(r) == r.method \in {"GET", "PUT", "DELETE"} /\ r.seg # <<>>
IdOf(r) == parseInt(Str(r.seg))
LiveIds(ps) == {ps[i].id : i \in DOMAIN ps}

\* C1: after any sequence of create, update and delete requests starting
\* from the seed collection, no two records of the collection have the same id.
C1_UniqueIds ==
  \A i, j \in DOMAIN products : products[i].id = products[j].id => i = j

\* A successful PUT whose payload carried an id key, after a create.
C1_Witness ==
  /\ req.method = "PUT" /\ res.status = 200
  /\ req.body.id # Undefined
  /\ writes.POST >= 1

\* C2: ids are never recycled: every successful create is assigned an id
\* greater than every id ever held by a record, deleted or not, so no create
\* is assigned the id of a deleted record.
C2_NeverRecycled ==
  [][ (req'.method = "POST" /\ res'.status = 201)
        => \A k \in retired \cup LiveIds(products) : res'.product.id.n > k.n ]_vars

\* C3: every successful create assigns the new record the id (maximum id in
\* the collection just before the create) + 1, or 1 when the collection is
\* empty, whatever id the request body supplies.
C3_NextIdIsMaxPlusOne ==
  [][ (req'.method = "POST" /\ res'.status = 201)
        => LET expected ==
                 IF products = <<>> THEN Whole(1)
                 ELSE Ticks(Scale + (CHOOSE m \in {k.n : k \in LiveIds(products)} :
                                       \A k \in LiveIds(products) : k.n <= m))
           IN  /\ res'.product.id = expected
               /\ products' = Append(products, products'[Len(products')])
               /\ products'[Len(products')].id = expected ]_vars

\* A create in the empty collection whose body supplied an id.
C3_Witness ==
  /\ req.method = "POST" /\ res.status = 201
  /\ req.body.id # Undefined
  /\ Len(products) = 1 /\ products[1].id = Whole(1)

\* The fields a PUT may set.
Updatable == {"title", "description", "price", "discountPercentage", "rating", "stock",
              "brand", "category", "thumbnail", "images"}

\* C4: a successful PUT changes, in the record it addresses, only updatedAt
\* and fields among Updatable that are present in the payload, and leaves
\* every other record unchanged; a PUT of an existing id whose payload has
\* none of those fields is answered 200.
C4_UpdateMerges ==
  [][ /\ (req'.method = "PUT" /\ res'.status = 200)
           => \E k \in DOMAIN products :
                /\ products[k].id = IdOf(req')
                /\ Len(products') = Len(products)
                /\ \A i \in DOMAIN products : i # k => products'[i] = products[i]
                /\ \A f \in ProductFields :
                     (f # "updatedAt" /\ ~(f \in Updatable /\ req'.body[f] # Undefined))
                       => products'[k][f] = products[k][f]
      /\ (req'.method = "PUT" /\ IdOf(req') \in LiveIds(products)
          /\ \A f \in Updatable : req'.body[f] = Undefined)
           => res'.status = 200 ]_vars

\* A PUT with only unknown keys that refreshed updatedAt of a created record.
C4_Witness ==
  /\ req.method = "PUT" /\ res.status = 200
  /\ req.body = UnknownKeysBody
  /\ res.product.createdAt # Undefined
  /\ res.product.updatedAt # res.product.createdAt

Same(p, q) == p.id = q.id /\ p.createdAt = q.createdAt

\* C5: no request changes the id or the createdAt of a record that stays in
\* the collection (a delete moves the records after the deleted one up).
C5_IdAndCreatedAtKept ==
  [][ \/ /\ Len(products') >= Len(products)
         /\ \A i \in DOMAIN products : Same(products[i], products'[i])
      \/ /\ Len(products') = Len(products) - 1
         /\ \E k \in DOMAIN products : \A i \in DOMAIN products' :
              Same(products[IF i < k THEN i ELSE i + 1], products'[i]) ]_vars

\* A successful PUT, on a created record, of a payload with id and createdAt.
C5_Witness ==
  /\ req.method = "PUT" /\ res.status = 200
  /\ req.body.id # Undefined /\ req.body.createdAt # Undefined
  /\ res.product.createdAt \notin {Undefined, req.body.createdAt}
  /\ res.product.id # req.body.id

\* C6: a GET of the id of a create response, right after the create, returns
\* 200 and a record equal, field by field, to the create response.
C6_RoundTrip ==
  [][ (req.method = "POST" /\ res.status = 201
       /\ req'.method = "GET" /\ req'.seg = ToString(res.product.id))
        => (res'.status = 200 /\ res'.product = res.product) ]_vars

\* A GET answered with a record that a create stored at a place other than
\* the one its id counts.
C6_Witness ==
  /\ req.method = "GET" /\ res.status = 200
  /\ res.product.createdAt # Undefined
  /\ \E i \in DOMAIN products :
       products[i].id = res.product.id /\ products[i].id # Whole(i)

\* C7: a DELETE of an id present in the collection removes exactly that
\* record and keeps the others in order; it answers 200 with the record as it
\* was (deletedProduct) and the new size (remainingProducts); and a GET, PUT
\* or DELETE of that id right after it is answered 404.
C7_DeleteRemovesOne ==
  [][ /\ (req'.method = "DELETE" /\ res'.status = 200)
           => \E k \in DOMAIN products :
                /\ products[k].id = IdOf(req')
                /\ Len(products') = Len(products) - 1
                /\ \A i \in DOMAIN products' :
                     products'[i] = products[IF i < k THEN i ELSE i + 1]
                /\ res'.deletedProduct = JSONProduct(products[k])
                /\ res'.remainingProducts = Whole(Len(products'))
      /\ (req'.method = "DELETE" /\ IdOf(req') \in LiveIds(products))
           => res'.status = 200
      /\ (req.method = "DELETE" /\ res.status = 200 /\ ById(req')
          /\ IdOf(req') = IdOf(req))
           => res'.status = 404 ]_vars

\* A PUT of an id answered 404 because a DELETE removed the record.
C7_Witness ==
  /\ req.method = "PUT" /\ res.status = 404
  /\ IdOf(req) \in retired
  /\ Len(products) = Len(SeedProducts) - 1

\* C8: a request answered 400, 404 or 500 leaves the collection as it was.
C8_ErrorsChangeNothing ==
  [][ res'.status \in {400, 404, 500} => products' = products ]_vars

\* A PUT to an existing record that was answered 500.
C8_Witness ==
  /\ req.method = "PUT" /\ res.status = 500
  /\ IdOf(req) \in LiveIds(products)

\* C9: for GET, PUT and DELETE on /api/products/:id, when the id segment
\* parses to not-a-number or to a value <= 0 the response is 400 with the
\* message 'Invalid product ID...', whatever the collection and the body are.
C9_InvalidIdIs400 ==
  (ById(req) /\ (isNaN(IdOf(req)) \/ ~Greater(IdOf(req), 0)))
    => (res.status = 400 /\ res.message = InvalidIdMessage)

\* A PUT of the id 0 with a valid payload.
C9_Witness ==
  /\ req.method = "PUT" /\ req.seg = <<"0">> /\ req.body = FullBody
  /\ res.status = 400

\* C10: for GET, PUT and DELETE with a well-formed positive id that matches
\* no record the response is 404 and its availableIds is the list of the ids
\* in the collection, in collection order.
C10_NotFoundListsIds ==
  [][ (ById(req') /\ ~isNaN(IdOf(req')) /\ Greater(IdOf(req'), 0)
       /\ IdOf(req') \notin LiveIds(products))
        => (res'.status = 404 /\ res'.availableIds = Arr(Ids(products))
            /\ products' = products) ]_vars

\* A 404 after a create and a delete, listing the id of the created record.
C10_Witness ==
  /\ ById(req) /\ res.status = 404
  /\ writes.POST >= 1 /\ writes.DELETE >= 1
  /\ \E i \in DOMAIN res.availableIds.a : res.availableIds.a[i] \notin LiveIds(SeedProducts)

\* The order in which POST and PUT validate the fields.
FieldOrder == <<"title", "price", "stock", "discountPercentage", "rating">>

\* A parsed number lies outside [lo, hi]; hi = -1: no upper bound.
OutOfRange(x, lo, hi) ==
  \/ x.t \in {"nan", "ninf"}
  \/ x.t = "num" /\ (x.n < lo * Scale \/ (hi >= 0 /\ x.n > hi * Scale))
  \/ x.t = "inf" /\ hi >= 0

\* The value b[f] of a payload violates the rule of the field f; required:
\* the field must be present (POST: title and price).
Breaks(f, b, required) ==
  CASE f = "title" ->
         IF b.title = Undefined THEN required
         ELSE ~(b.title.t = "str" /\ \E i \in DOMAIN b.title.s : b.title.s[i] \notin WhiteSpace)
    [] f = "price" ->
         IF b.price = Undefined THEN required
         ELSE OutOfRange(parseFloat(b.price), 0, -1)
    [] f = "stock" -> b.stock # Undefined /\ OutOfRange(parseInt(b.stock), 0, -1)
    [] f = "discountPercentage" ->
         b.discountPercentage # Undefined /\ OutOfRange(parseFloat(b.discountPercentage), 0, 100)
    [] f = "rating" -> b.rating # Undefined /\ OutOfRange(parseFloat(b.rating), 0, 5)

Broken(b, required) == {i \in DOMAIN FieldOrder : Breaks(FieldOrder[i], b, required)}
FirstBroken(b, required) ==
  FieldOrder[CHOOSE i \in Broken(b, required) : \A j \in Broken(b, required) : i <= j]

\* C11: a POST or PUT answered 400 for a field names the first field, in
\* the order title, price, stock, discountPercentage, rating, whose value
\* violates its rule, also when several fields do; and a POST or PUT that
\* succeeds has no field that violates its rule.
C11_FirstFailureNamed ==
  [][ /\ (req'.method \in {"POST", "PUT"} /\ res'.status = 400 /\ res'.field # Undefined)
           => /\ Broken(req'.body, req'.method = "POST") # {}
              /\ res'.field = Text(FirstBroken(req'.body, req'.method = "POST"))
      /\ (req'.method \in {"POST", "PUT"} /\ res'.status \in {200, 201})
           => Broken(req'.body, req'.method = "POST") = {} ]_vars

\* A PUT whose payload has an invalid stock, discount and rating, answered
\* 400 for the stock.
C11_Witness ==
  /\ req.method = "PUT" /\ res.status = 400 /\ res.field = Text("stock")
  /\ Cardinality(Broken(req.body, FALSE)) = 3

\* C12: every response with status 400 carries message, field and received,
\* for an invalid id as for a field that fails validation, and every 404 of
\* a product route carries availableIds.
C12_ErrorBodiesComplete ==
  /\ res.status = 400
       => (res.message # Undefined /\ res.field # Undefined /\ res.received # Undefined)
  /\ res.status = 404 => res.availableIds # Undefined

\* The data-model constraints of a record.
WellFormed(p) ==
  /\ p.title.t = "str" /\ trim(p.title.s) # <<>>
  /\ p.price.t = "inf" \/ (p.price.t = "num" /\ p.price.n >= 0)
  /\ p.discountPercentage.t = "num"
  /\ p.discountPercentage.n >= 0 /\ p.discountPercentage.n <= 100 * Scale
  /\ p.rating.t = "num" /\ p.rating.n >= 0 /\ p.rating.n <= 5 * Scale
  /\ p.stock.t = "num" /\ p.stock.n >= 0 /\ p.stock.n % Scale = 0
  /\ p.images.t = "arr"

\* C13: in every reachable state every record of the collection has a title
\* that is a string with a non-whitespace character, a price >= 0, a
\* discountPercentage in [0, 100], a rating in [0, 5], a stock that is an
\* integer >= 0, and images that is an array.
C13_RecordsWellFormed ==
  \A i \in DOMAIN products : WellFormed(products[i])

\* A record created and a record updated from a payload with the stock 3.7:
\* both hold the stock 3.
C13_Witness ==
  /\ req.method = "PUT" /\ res.status = 200
  /\ req.body.stock = Num(3, 70)
  /\ Len(products) = Len(SeedProducts) + 1
  /\ products[1].stock = Whole(3) /\ products[Len(products)].stock = Whole(3)

\* The request reaches field validation: a POST, or a PUT of an existing id.
Validated(r, ps) == r.method = "POST" \/ (r.method = "PUT" /\ IdOf(r) \in LiveIds(ps))

\* Every field of the payload but f satisfies its rule.
OthersValid(r, f) ==
  \A i \in DOMAIN FieldOrder :
    FieldOrder[i] # f => ~Breaks(FieldOrder[i], r.body, r.method = "POST")

UpperBound == [discountPercentage |-> 100, rating |-> 5]

\* C14: on POST and PUT, with the other fields valid, a number given as
\* discountPercentage is accepted exactly when it lies in [0, 100] and a
\* number given as rating exactly when it lies in [0, 5]; a rejected value
\* is answered 400 naming that field.
C14_ClosedIntervals ==
  [][ \A f \in DOMAIN UpperBound :
        (Validated(req', products) /\ req'.body[f].t = "num" /\ OthersValid(req', f))
          => IF req'.body[f].n >= 0 /\ req'.body[f].n <= UpperBound[f] * Scale
             THEN res'.status \in {200, 201}
             ELSE res'.status = 400 /\ res'.field = Text(f) ]_vars

\* A PUT of the rating 5.0001 to an existing record, answered 400 naming rating.
C14_Witness ==
  /\ req.method = "PUT" /\ res.status = 400 /\ res.field = Text("rating")
  /\ req.body.rating = Ticks(5 * Scale + Epsilon)
  /\ IdOf(req) \in LiveIds(products)

\* C15: when a payload is sent in a POST and then in a PUT of an existing
\* id, then for each of title, price, stock, discountPercentage and rating
\* that is present in it, the other fields being valid, the PUT is answered
\* 400 if and only if the POST was; a PUT answered 400 for a field names a
\* field that is present in its payload; and a PUT of an existing id whose
\* present fields are all valid is answered 200, whichever fields are absent.
C15_SameRules ==
  [][ /\ \A i \in DOMAIN FieldOrder :
           (/\ req.method = "POST" /\ req'.method = "PUT" /\ req'.body = req.body
            /\ IdOf(req') \in LiveIds(products)
            /\ req.body[FieldOrder[i]] # Undefined
            /\ OthersValid(req, FieldOrder[i]))
             => (res'.status = 400 <=> res.status = 400)
      /\ (req'.method = "PUT" /\ res'.status = 400 /\ res'.field # Undefined)
           => \E i \in DOMAIN FieldOrder :
                res'.field = Text(FieldOrder[i]) /\ req'.body[FieldOrder[i]] # Undefined
      /\ (req'.method = "PUT" /\ IdOf(req') \in LiveIds(products)
          /\ Broken(req'.body, FALSE) = {})
           => res'.status = 200 ]_vars

\* A PUT of a payload with the price null, answered 400 as the POST was.
C15_Witness ==
  /\ req.method = "PUT" /\ res.status = 400 /\ res.field = Text("price")
  /\ req.body.price = Null /\ req.body.title # Undefined
  /\ IdOf(req) \in LiveIds(products)

\* An array whose elements are all strings.
StringArray(v) == v.t = "arr" /\ \A i \in DOMAIN v.a : v.a[i].t = "str"

\* C16: a successful create whose payload has an images value that is not
\* an array of strings stores the empty array, and every record a create
\* stores has images that is an array of strings.
C16_ImagesCoerced ==
  [][ (req'.method = "POST" /\ res'.status = 201)
        => /\ (req'.body.images # Undefined /\ ~StringArray(req'.body.images))
                => products'[Len(products')].images = Arr(<<>>)
           /\ StringArray(products'[Len(products')].images) ]_vars

\* C17: GET /api/products is answered 200 with products the whole collection
\* in its order, as JSON, total its length, skip 0 and limit equal to total;
\* no GET changes the collection; and every other request keeps the records
\* that stay in their order: a create appends one record at the end, an
\* update keeps every record at its place, a delete closes the gap.
C17_ListsAllInOrder ==
  [][ /\ (req'.method = "GET" /\ req'.seg = <<>>)
           => /\ res'.status = 200
              /\ res'.products = [i \in DOMAIN products |-> JSONProduct(products[i])]
              /\ res'.total = Whole(Len(products))
              /\ res'.skip = Whole(0) /\ res'.limit = res'.total
      /\ req'.method = "GET" => products' = products
      /\ \/ Ids(products') = Ids(products)
         \/ Len(products') = Len(products) + 1
              /\ SubSeq(products', 1, Len(products)) = products
         \/ Len(products') = Len(products) - 1
              /\ \E k \in DOMAIN products : \A i \in DOMAIN products' :
                   products'[i] = products[IF i < k THEN i ELSE i + 1] ]_vars

\* A list sent after a create and the delete of the first seed record.
C17_Witness ==
  /\ req.method = "GET" /\ req.seg = <<>> /\ res.status = 200
  /\ writes.POST = 1 /\ writes.DELETE = 1
  /\ res.total = Whole(Len(SeedProducts))
  /\ res.products[1].id = Whole(2)

\* The optional fields of a create and their defaults.
Defaults ==
  [description |-> Str(<<>>), discountPercentage |-> Whole(0), rating |-> Whole(0),
   stock |-> Whole(0), brand |-> Str(<<>>), category |-> Str(<<>>),
   thumbnail |-> Str(<<>>), images |-> Arr(<<>>)]

\* A number of the field's type: any number, for stock an integer.
NumberOf(f, v) == v.t = "num" /\ (f = "stock" => v.n % Scale = 0)

C19_CreatedAtIsUpdatedAt ==
  [][ (req'.method = "POST" /\ res'.status = 201)
        => /\ products'[Len(products')].createdAt = products'[Len(products')].updatedAt
           /\ res'.product.createdAt = res'.product.updatedAt ]_vars

\* C20: no POST or PUT is answered 500, and a POST whose title is missing
\* or is not a string with a non-whitespace character is answered 400
\* naming title.
C20_NoInternalError ==
  /\ req.method \in {"POST", "PUT"} => res.status # 500
  /\ (req.method = "POST" /\ Breaks("title", req.body, TRUE))
       => (res.status = 400 /\ res.field = Text("title"))

\* An exception is raised while the request r is processed: its body is
\* not JSON, or its handler calls trim on a title that is not a string.
Raises(r, ps) ==
  \/ ~r.json
  \/ /\ Validated(r, ps)
     /\ Truthy(r.body.title) /\ r.body.title.t # "str"

\* C21: a request during whose processing an exception is raised, in the
\* route handler or in the middleware before it, is answered 500 with a body
\* that carries message, timestamp, path and method.
C21_ExceptionsAnswered500 ==
  Raises(req, products)
    => /\ res.status = 500
       /\ res.message # Undefined /\ res.timestamp # Undefined
       /\ res.path # Undefined /\ res.method # Undefined

\* The collection and the response when the request r is handled alone, from
\* the first statement of its handler to the last, on the collection ps.
Alone(ps, r) ==
  IF r.method = "POST"
  THEN IF ValidateCreate(r.body) # Valid
       THEN [products |-> ps, res |-> ValidateCreate(r.body)]
       ELSE [products |-> Append(ps, ProductToCreate(ps, r.body, now, now)),
             res |-> [Response(201) EXCEPT
                        !.product = JSONProduct(ProductToCreate(ps, r.body, now, now))]]
  ELSE IF InvalidIdParam(IdOf(r)) THEN [products |-> ps, res |-> InvalidId(r.seg)]
  ELSE IF IdOf(r) \notin LiveIds(ps) THEN [products |-> ps, res |-> NotFound(ps, IdOf(r))]
  ELSE [products |-> SelectSeq(ps, LAMBDA p : p.id # IdOf(r)),
        res |-> [Response(200) EXCEPT
                   !.message = Text("Product deleted successfully"),
                   !.deletedProduct =
                      JSONProduct(CHOOSE p \in {ps[i] : i \in DOMAIN ps} : p.id = IdOf(r)),
                   !.remainingProducts = Whole(Len(ps) - 1),
                   !.timestamp = toISOString(now)]]

\* Handling the requests of log one after the other, from the k-th on and
\* from the collection ps, gives the responses of log and ends in the
\* collection final.
RECURSIVE InSequence(_, _, _, _)
InSequence(ps, log, k, final) ==
  IF k > Len(log) THEN ps = final
  ELSE /\ Alone(ps, log[k].req).res = log[k].res
       /\ InSequence(Alone(ps, log[k].req).products, log, k + 1, final)

\* C22: the collection and the responses of requests that arrived
\* concurrently are those of handling the same requests one after the other
\* in some order (the order in which they were answered); no two records
\* share an id and no two creates are answered with the same id.
C22_HandlersAtomic ==
  /\ InSequence(SeedProducts, loop.done, 1, products)
  /\ \A i, j \in DOMAIN products : products[i].id = products[j].id => i = j
  /\ \A i, j \in DOMAIN loop.done :
       (i # j /\ loop.done[i].res.status = 201 /\ loop.done[j].res.status = 201)
         => loop.done[i].res.product.id # loop.done[j].res.product.id

\* The segment is the decimal representation of a positive integer.
PositiveDecimal(seg) ==
  /\ seg # <<>>
  /\ \A i \in DOMAIN seg : seg[i] \in Digits
  /\ \E i \in DOMAIN seg : seg[i] # "0"

\* C23: a GET, PUT or DELETE of /api/products/:id whose id segment is not
\* the decimal representation of a positive integer is answered 400, and
\* leaves the collection as it is.
C23_IdIsPositiveInteger ==
  [][ (ById(req') /\ ~PositiveDecimal(req'.seg))
        => (res'.status = 400 /\ products' = products) ]_vars

\* C25: a PUT whose id segment parses to not-a-number or to a value <= 0 is
\* answered 400 for the id whatever its payload is; a PUT whose id is valid
\* and matches no record is answered 404 whatever its payload is; and a PUT
\* answered 400 for a field addressed a record of the collection.
C25_UpdateCheckOrder ==
  [][ req'.method = "PUT"
        => /\ InvalidIdParam(IdOf(req'))
                => (res'.status = 400 /\ res'.message = InvalidIdMessage)
           /\ (~InvalidIdParam(IdOf(req')) /\ IdOf(req') \notin LiveIds(products))
                => res'.status = 404
           /\ (res'.status = 400 /\ res'.field # Undefined)
                => IdOf(req') \in LiveIds(products) ]_vars

\* A PUT of an id that matches no record with a negative price, answered 404.
C25_Witness ==
  /\ req.method = "PUT" /\ req.seg = <<"6">> /\ req.body = NegativePriceBody
  /\ res.status = 404

\* C24: in the server of app.js no two records of the collection share an
\* id, and a successful PUT /api/products/:id stores and returns a record
\* whose id is :id, whatever keys its payload has.
C24_AppIdsUnique ==
  [][ /\ \A i, j \in DOMAIN products' : products'[i].id = products'[j].id => i = j
      /\ (req'.method = "PUT" /\ res'.status = 200)
           => /\ res'.product.id = IdOf(req')
              /\ \E k \in DOMAIN products :
                   products[k].id = IdOf(req') /\ products'[k].id = IdOf(req') ]_vars

\* ---------------------------------------------------------------------
\* The page: properties
\* ---------------------------------------------------------------------
Settled(c) == c.promise \in {"resolved", "rejected"}

\* C26: with timers that fire, the promise returned by fetchWithTimeout is
\* settled in the end, resolved or rejected, whether or not the fetch of the
\* first attempt or of a retry ever completes.
C26_AlwaysSettles == (page.call.promise = "pending") ~> Settled(page.call)

Retryable(error) == error.name = "AbortError" \/ Includes(error.message, "fetch")

\* C27: a call of fetchWithTimeout calls fetch at most retries + 1 times, 4
\* times with the default MAX_RETRIES; every attempt but the last one ended
\* with an AbortError or an error whose message contains 'fetch', and an
\* attempt that got a response is the last one.
C27_AttemptsBounded ==
  LET c == page.call
  IN  /\ c.fetches <= c.retries + 1
      /\ c.retries = MAX_RETRIES => c.fetches <= 4
      /\ \A i \in 1..(c.fetches - 1) :
           i \in DOMAIN c.outcomes /\ Retryable(c.outcomes[i])
      /\ \A i \in DOMAIN c.outcomes : c.outcomes[i] = NoError => i = c.fetches

\* The fourth attempt of a call got a response after three network failures.
C27_Witness ==
  /\ page.call.fetches = MAX_RETRIES + 1
  /\ Len(page.call.outcomes) = MAX_RETRIES + 1
  /\ page.call.outcomes[1] = FailedToFetch
  /\ page.call.outcomes[MAX_RETRIES + 1] = NoError
  /\ page.call.promise = "resolved"

\* C28: once the promise of a call of fetchWithTimeout is settled, no retry
\* timer of the call is pending and fetch is not called again for it.
C28_QuietOnceSettled ==
  /\ [](Settled(page.call) => page.call.retry = -1)
  /\ [][(Settled(page.call) /\ Settled(page'.call))
          => page'.call.fetches = page.call.fetches]_vars

\* The button clicked last is enabled and shows its own label.
Restored(button) ==
  ~button.disabled /\ button.textContent = Label(button.endpoint)

\* C29: while a click is being served the button is disabled and shows
\* Loading..., and with timers that fire every disabled button is enabled
\* again with its original label, whatever the path the click took.
C29_ButtonReEnabled ==
  /\ []((page.waiting \/ page.button.timer)
          => (page.button.disabled /\ page.button.textContent = Text("Loading...")))
  /\ page.button.disabled ~> Restored(page.button)

\* Test mode as the documentation has it: test=true in the query of the URL,
\* or window.testMode set.
InTestMode(win) ==
  (\E i \in DOMAIN win.search : win.search[i] = "test=true") \/ win.testMode = Bool(TRUE)

PositiveNumber(id) == (id.t = "num" /\ id.n > 0) \/ id.t = "inf"

\* C30: deleteProduct hands a DELETE request to fetch only for an id that is
\* a positive number and, outside test mode, only after confirm() returned
\* true; when the user declines, nothing is sent and the promise returned is
\* resolved with {cancelled: true}; in test mode the dialog is not shown and
\* the request for a positive id is sent.
C30_DeleteOnlyConfirmed ==
  LET d == page.remove
      c == page.call
      sending == page.by = "deleteProduct" /\ c.method = "DELETE" /\ c.fetches > 0
  IN  /\ c.method = "DELETE" => page.by = "deleteProduct"
      /\ sending => /\ PositiveNumber(d.id) /\ c.url = ToString(d.id)
                    /\ InTestMode(d.win) \/ (d.asked /\ d.answer)
      /\ (d.asked /\ ~d.answer) => (d.result = "cancelled" /\ c.fetches = 0)
      /\ (InTestMode(d.win) /\ d.result # "none")
           => /\ ~d.asked
              /\ PositiveNumber(d.id) => d.result = "sent"
      /\ (d.result = "sent" /\ page.by = "deleteProduct") => sending

\* Outside test mode the user declined the deletion of the product 5.
C30_Witness ==
  /\ page.remove.id = Whole(5) /\ ~InTestMode(page.remove.win)
  /\ page.remove.asked /\ ~page.remove.answer
  /\ page.remove.result = "cancelled"

====
